---------------------------- MODULE Spec2Model ----------------------------
(***************************************************************************)
(* Model of milli:                                                         *)
(*   - Search (builder, execute, perform_sort)   milli/src/search/mod.rs   *)
(*   - word_derivations / get_first / build_dfa  milli/src/search/mod.rs   *)
(*   - IndexDocuments (add_documents, execute, execute_raw,                *)
(*     execute_prefix_databases)                                           *)
(*                          milli/src/update/index_documents/mod.rs        *)
(* Words and fst keys are sequences of characters, roaring bitmaps are     *)
(* sets of document ids that iterate in ascending order.                   *)
(***************************************************************************)
EXTENDS Integers, Sequences, FiniteSets, TLC

(***************************************************************************)
(* Bounds of the model.                                                    *)
(***************************************************************************)
MaxDoc == 3
MaxBuckets == 2
MaxOffset == 2
MaxLimit == 2
MaxSort == 2
MaxWordLen == 2
MaxKeyLen == 3
MaxFstKeys == 2
MaxCacheEntries == 2

\* Search::new sets limit to 20.
DefaultLimit == 20

\* Option: None and Some(x)
None == [some |-> FALSE]
Some(x) == [some |-> TRUE, v |-> x]

Docs == 1..MaxDoc

\* values of the distinct field
FacetValues == {"red", "blue"}

Min(a, b) == IF a < b THEN a ELSE b

RECURSIVE SetToSeq(_)
\* ascending iteration of a bitmap
SetToSeq(S) ==
    IF S = {} THEN <<>>
    ELSE LET m == CHOOSE x \in S : \A y \in S : x <= y
         IN <<m>> \o SetToSeq(S \ {m})

Range(s) == {s[i] : i \in 1..Len(s)}

VARIABLES
    \* ---- the index, as seen through the transaction the Search holds
    index_criteria_sort,      \* Criterion::Sort is one of index.criteria
    index_sortable_fields,    \* index.sortable_fields
    index_distinct_field,     \* index.distinct_field: None or a field name
    index_fields_ids_map,     \* names that have a field id
    index_authorize_typos,    \* index.authorize_typos
    index_facets,             \* doc id -> values of the distinct field
    index_buckets,            \* buckets the criteria pipeline ranks for the query
    \* ---- struct Search
    query,
    filter,
    offset,
    limit,
    sort_criteria,
    authorize_typos,
    \* ---- Search::execute / perform_sort in progress
    pc,
    builder_typos,            \* value given to QueryTreeBuilder::authorize_typos
    criteria_pos,             \* number of buckets the criteria already yielded
    offset_left,              \* local `offset` of perform_sort
    initial_candidates,
    excluded_candidates,
    documents_ids,
    next_calls,               \* excluded sets handed to criteria.next, in order
    distinct_calls,           \* for each bucket, the excluded set handed to
                              \* distinct and what into_excluded returned
    result,
    \* ---- word_derivations
    fst,                      \* the keys of the fst::Set
    cache,                    \* WordDerivationsCache
    wd_call,                  \* arguments of the last call
    wd_computed,              \* the last call took the Vacant arm
    wd_result,                \* what the last call returned
    \* ---- document addition
    wtxn,                     \* a write transaction is open
    index_store,              \* the databases, as seen through the transaction
    indexer,                  \* the IndexDocuments builder: None or its fields
    ingest_result,            \* what the last call on the write path returned
    transform_output,         \* the last execute_raw: its new and replaced ids,
                              \* what was staged and the versions it deleted
    recovery,                 \* how far the caller is after a rejected batch
    \* ---- execute_raw in progress
    extractor,                \* the extraction pipeline: what it has yet to send
    lmdb_writer,              \* the channel of typed chunks, oldest first
    merger,                   \* the locals of execute_raw and what it did so far
    words_prefixes_fst        \* the words prefixes fst of the index

index_vars == <<index_criteria_sort, index_sortable_fields, index_distinct_field,
                index_fields_ids_map, index_authorize_typos, index_facets,
                index_buckets>>
search_vars == <<query, filter, offset, limit, sort_criteria, authorize_typos>>
exec_vars == <<pc, builder_typos, criteria_pos, offset_left, initial_candidates,
               excluded_candidates, documents_ids, next_calls, distinct_calls,
               result>>

derive_vars == <<fst, cache, wd_call, wd_computed, wd_result>>

ingest_vars == <<wtxn, index_store, indexer, ingest_result, transform_output,
                 recovery>>

merger_vars == <<extractor, lmdb_writer, merger, words_prefixes_fst>>

\* what the methods of Search leave alone
outside_search == <<derive_vars, ingest_vars, merger_vars>>

\* what word_derivations leaves alone
outside_derive == <<index_vars, search_vars, exec_vars, ingest_vars, merger_vars>>

\* what the calls on the write path leave alone
outside_ingest == <<index_vars, search_vars, exec_vars, derive_vars, merger_vars>>

\* what execute_prefix_databases leaves alone, what the steps of execute_raw
\* before it leave alone
outside_prefix == <<index_vars, search_vars, exec_vars, derive_vars>>
outside_merger == <<outside_prefix, words_prefixes_fst>>

vars == <<index_vars, search_vars, exec_vars, derive_vars, ingest_vars,
          merger_vars>>

\* Index::new: an index without documents
EmptyIndex ==
    [documents_ids |-> {},
     documents |-> <<>>,
     external_documents_ids |-> <<>>,
     word_docids |-> <<>>,
     words_fst |-> {},
     fields_ids_map |-> {},
     filterable_fields |-> {},
     sortable_fields |-> {}]

\* no write transaction, no builder
IngestIdle ==
    /\ wtxn = FALSE
    /\ index_store = EmptyIndex
    /\ indexer = None
    /\ ingest_result = None
    /\ transform_output = None
    /\ recovery = "none"

\* lines 427-432: the configuration of WordsPrefixesFst
WordsPrefixThreshold == 1
MaxPrefixLength == 2

HasPrefix(word, prefix) ==
    Len(prefix) <= Len(word) /\ SubSeq(word, 1, Len(prefix)) = prefix

\* WordsPrefixesFst::execute: the prefixes, of at most MaxPrefixLength
\* characters, that at least WordsPrefixThreshold words of the words fst share
WordsPrefixesFst(words_fst) ==
    {prefix \in UNION {{SubSeq(word, 1, n) : n \in 1..Min(Len(word), MaxPrefixLength)} :
                           word \in words_fst} :
        /\ Cardinality({word \in words_fst : HasPrefix(word, prefix)})
               >= WordsPrefixThreshold}

\* no extraction, an empty channel, no execute_raw under way
\* `raised` keeps the error of the extraction, `error` holds it until it is
\* sent; `dropped` says that execute_raw dropped its sender, `installed` that
\* pool.install returned
ExtractorIdle ==
    [to_send |-> {}, others |-> 0, error |-> None, raised |-> None,
     dropped |-> TRUE, installed |-> TRUE]
MergerFrameIdle ==
    [pc |-> "idle",
     before |-> EmptyIndex,
     output |-> None,
     geo_fields_ids |-> None,
     index_documents_ids |-> {},
     index_is_empty |-> TRUE,
     databases_seen |-> 0,
     number_of_documents |-> 0,
     appended_onto_keys |-> FALSE,
     word_docids |-> None,
     exact_word_docids |-> None,
     word_pair_proximity_docids |-> None,
     word_position_docids |-> None,
     prefixes |-> None,
     progress |-> <<>>,
     done |-> <<>>]
MergerIdle ==
    /\ extractor = ExtractorIdle
    /\ lmdb_writer = <<>>
    /\ merger = MergerFrameIdle
    /\ words_prefixes_fst = WordsPrefixesFst(index_store.words_fst)


(***************************************************************************)
(* Sort members.  A field name is its dotted path, one component per       *)
(* element, so that "price.eur" is <<"price", "eur">>.                     *)
(***************************************************************************)
Field(path) == [kind |-> "Field", name |-> path]
Geo == [kind |-> "Geo"]

FieldPaths == {<<"price">>, <<"price", "eur">>, <<"name">>}
GeoPath == <<"_geo">>
SortablePaths == {<<"price">>, GeoPath}
Members == {Field(p) : p \in FieldPaths} \cup {Geo}
SortLists == UNION {[1..n -> Members] : n \in 0..MaxSort}

\* crate::is_faceted_by: `field` starts with `facet` and what follows is
\* nothing or a '.' separator
is_faceted_by(field, facet) ==
    /\ Len(facet) <= Len(field)
    /\ SubSeq(field, 1, Len(facet)) = facet

\* crate::is_faceted
is_faceted(field, faceted_fields) ==
    \E facet \in faceted_fields : is_faceted_by(field, facet)

\* only the Field arm rejects
MemberRejectedFieldOnly(m, sortable_fields) ==
    m.kind = "Field" /\ ~is_faceted(m.name, sortable_fields)

\* the guard of the two rejecting arms of the match on asc_desc.member()
MemberRejected(m, sortable_fields) ==
    \/ m.kind = "Field" /\ ~is_faceted(m.name, sortable_fields)
    \/ m.kind = "Geo" /\ GeoPath \notin sortable_fields

\* the field reported by InvalidSortableAttribute for a rejected member
RejectedField(m) == IF m.kind = "Field" THEN m.name ELSE GeoPath

\* the `for asc_desc in sort_criteria` loop: the first rejected member
\* returns the error, None when every member passes
SortCheck(sc, sortable_fields) ==
    IF ~sc.some THEN None
    ELSE LET bad == {i \in 1..Len(sc.v) : MemberRejected(sc.v[i], sortable_fields)}
         IN IF bad = {} THEN None
            ELSE LET i == CHOOSE j \in bad : \A k \in bad : j <= k
                 IN Some([kind |-> "InvalidSortableAttribute",
                          field |-> RejectedField(sc.v[i]),
                          valid_fields |-> sortable_fields])

\* a Some(empty list) counts as a sort request
SortRuleCheckAnySome(sc, criteria_sort) == ~criteria_sort /\ sc.some

\* sort_ranking_rule_missing && !empty_sort_criteria
SortRuleCheck(sc, criteria_sort) ==
    LET sort_ranking_rule_missing == ~criteria_sort
        empty_sort_criteria == IF ~sc.some THEN TRUE ELSE sc.v = <<>>
    IN sort_ranking_rule_missing /\ ~empty_sort_criteria

\* the index flag is not consulted
is_typo_authorized_query_only == authorize_typos

\* Search::is_typo_authorized
is_typo_authorized == authorize_typos /\ index_authorize_typos

(***************************************************************************)
(* The criteria pipeline and the distinct iterators.                       *)
(***************************************************************************)
\* Final::next(excluded): the next bucket, its candidates without the
\* excluded ids; None once every bucket was yielded
CriteriaNext(pos, excluded) ==
    IF pos >= Len(index_buckets) THEN None
    ELSE Some([candidates |-> index_buckets[pos + 1] \ excluded,
               bucket_candidates |-> index_buckets[pos + 1]])

\* documents holding `value` in the distinct field
facet_docids(value) == {d \in Docs : value \in index_facets[d]}

\* Distinct::distinct
Distinct(kind, candidates, excluded) ==
    [kind |-> kind, candidates |-> candidates, excluded |-> excluded,
     iter_offset |-> 0]

\* DocIter::next for NoopDistinctIter and FacetDistinctIter; None at the end,
\* else the id and the advanced iterator
DistinctNext(it) ==
    IF it.kind = "Noop"
    THEN IF it.candidates = {} THEN None
         ELSE LET id == SetToSeq(it.candidates)[1]
              IN Some([id |-> id,
                       it |-> [it EXCEPT !.candidates = it.candidates \ {id}]])
    ELSE LET cands == it.candidates \ it.excluded
             order == SetToSeq(cands)
         IN IF Len(order) <= it.iter_offset THEN None
            ELSE LET id == order[it.iter_offset + 1]
                     same == UNION {facet_docids(v) : v \in index_facets[id]}
                 IN Some([id |-> id,
                          it |-> [it EXCEPT !.candidates = cands,
                                            !.excluded = (it.excluded \cup same) \ {id},
                                            !.iter_offset = it.iter_offset + 1]])

\* DocIter::into_excluded
IntoExcluded(it) == it.excluded

RECURSIVE Take(_, _)
\* candidates.by_ref().take(n): at most n calls of next, stopping at the
\* first None; the items and the iterator left behind
Take(it, n) ==
    IF n = 0 THEN [items |-> <<>>, it |-> it]
    ELSE LET r == DistinctNext(it)
         IN IF ~r.some THEN [items |-> <<>>, it |-> it]
            ELSE LET rest == Take(r.v.it, n - 1)
                 IN [items |-> <<r.v.id>> \o rest.items, it |-> rest.it]

\* a distinct field is taken to have a field id
DistinctKindOfAnyName ==
    IF ~index_distinct_field.some THEN "Noop" ELSE "Facet"

\* which Distinct Search::execute hands to perform_sort
DistinctKind ==
    IF ~index_distinct_field.some THEN "Noop"
    ELSE IF index_distinct_field.v \in index_fields_ids_map THEN "Facet"
    ELSE "NoFieldId"

SearchResult(cands, ids) == [kind |-> "Ok", candidates |-> cands, documents_ids |-> ids]
SearchResultDefault == SearchResult({}, <<>>)
Err(e) == [kind |-> "Err", error |-> e]

\* a per-bucket offset: the ids skipped in a bucket are not deducted
OffsetAfterNotDeducted(off, discarded) == off

\* offset = offset.saturating_sub(discarded)
OffsetAfter(off, discarded) == IF off >= discarded THEN off - discarded ELSE 0

\* the excluded ids of a bucket are not carried to the next one
ExcludedAfterForgotten(break, into_excluded) == {}

\* what the local excluded_candidates holds after one pass: `take` emptied
\* it, and only a pass that does not break assigns into_excluded() to it
ExcludedAfter(break, into_excluded) == IF break THEN {} ELSE into_excluded

\* a take that hands over a new bitmap
TakeOfNothing(excluded) == {}

\* line 225: take(&mut excluded_candidates), the value that is moved out
TakeExcluded(excluded) == excluded

\* one pass of the body of the `while let` of perform_sort over a bucket
\* `b` that criteria.next returned
LoopBody(b) ==
    LET excluded == TakeExcluded(excluded_candidates)
        it0 == Distinct(DistinctKind, b.candidates, excluded)
        skipped == IF offset_left # 0 THEN Take(it0, offset_left)
                   ELSE [items |-> <<>>, it |-> it0]
        discarded == Len(skipped.items)
        off1 == OffsetAfter(offset_left, discarded)
        taken == Take(skipped.it, limit - Len(documents_ids))
        ids == documents_ids \o taken.items
    IN [offset |-> off1,
        handed |-> it0.excluded,
        initial |-> initial_candidates \cup b.bucket_candidates,
        documents_ids |-> ids,
        break |-> Len(ids) = limit,
        excluded |-> IntoExcluded(taken.it)]

(***************************************************************************)
(* Initial states.                                                         *)
(***************************************************************************)
\* bucket sequences of a criteria pipeline: pairwise disjoint sets of ids
BucketSeqs ==
    {bs \in UNION {[1..n -> SUBSET Docs] : n \in 0..MaxBuckets} :
        \A i, j \in 1..Len(bs) : i # j => bs[i] \cap bs[j] = {}}

DistinctName == "color"

\* Search::new
SearchNew ==
    /\ query = None
    /\ filter = None
    /\ offset = 0
    /\ limit = DefaultLimit
    /\ sort_criteria = None
    /\ authorize_typos = TRUE

ExecIdle ==
    /\ pc = "idle"
    /\ builder_typos = None
    /\ criteria_pos = 0
    /\ offset_left = 0
    /\ initial_candidates = {}
    /\ excluded_candidates = {}
    /\ documents_ids = <<>>
    /\ next_calls = <<>>
    /\ distinct_calls = <<>>
    /\ result = None

\* no fst, no derivation asked yet
DeriveIdle ==
    /\ fst = {}
    /\ cache = <<>>
    /\ wd_call = None
    /\ wd_computed = FALSE
    /\ wd_result = None

\* the first document holding `v`, MaxDoc + 1 when there is none
FirstHolder(facets, v) ==
    LET holders == {d \in Docs : v \in facets[d]}
    IN IF holders = {} THEN MaxDoc + 1
       ELSE CHOOSE d \in holders : \A e \in holders : d <= e

\* the two values are interchangeable names: one assignment per pair of
\* assignments that differ by swapping them
FacetAssignments ==
    {f \in [Docs -> SUBSET FacetValues] :
        FirstHolder(f, "red") <= FirstHolder(f, "blue")}

\* any index content and distinct setting, default ranking rules; documents
\* hold values of the distinct field only when that field has a field id.
\* The values of the documents that are in no bucket are left out: such a
\* document is never a candidate.
Init ==
    /\ index_criteria_sort = FALSE
    /\ index_sortable_fields = {}
    /\ index_distinct_field \in {None, Some(DistinctName)}
    /\ index_fields_ids_map \in SUBSET {DistinctName}
    /\ index_authorize_typos = TRUE
    /\ index_facets \in FacetAssignments
    /\ DistinctKind # "Facet" => index_facets = [d \in Docs |-> {}]
    /\ index_buckets \in BucketSeqs
    /\ \A d \in Docs \ UNION Range(index_buckets) : index_facets[d] = {}
    /\ SearchNew
    /\ ExecIdle
    /\ DeriveIdle
    /\ IngestIdle
    /\ MergerIdle

(***************************************************************************)
(* The builder methods of Search.                                          *)
(***************************************************************************)
\* Search::offset
Offset(k) ==
    /\ UNCHANGED outside_search
    /\ pc = "idle"
    /\ offset' = k
    /\ UNCHANGED <<index_vars, exec_vars, query, filter, limit, sort_criteria,
                   authorize_typos>>

\* Search::limit
Limit(m) ==
    /\ UNCHANGED outside_search
    /\ pc = "idle"
    /\ limit' = m
    /\ UNCHANGED <<index_vars, exec_vars, query, filter, offset, sort_criteria,
                   authorize_typos>>

\* Search::query
Query(q) ==
    /\ UNCHANGED outside_search
    /\ pc = "idle"
    /\ query' = Some(q)
    /\ UNCHANGED <<index_vars, exec_vars, filter, offset, limit, sort_criteria,
                   authorize_typos>>

\* Search::filter; the condition is one that evaluates to a bitmap or one
\* whose evaluation fails
Filter(condition) ==
    /\ UNCHANGED outside_search
    /\ pc = "idle"
    /\ filter' = Some(condition)
    /\ UNCHANGED <<index_vars, exec_vars, query, offset, limit, sort_criteria,
                   authorize_typos>>

\* Search::sort_criteria
SortCriteria(criteria) ==
    /\ UNCHANGED outside_search
    /\ pc = "idle"
    /\ sort_criteria' = Some(criteria)
    /\ UNCHANGED <<index_vars, exec_vars, query, filter, offset, limit,
                   authorize_typos>>

\* Search::authorize_typos
AuthorizeTypos(value) ==
    /\ UNCHANGED outside_search
    /\ pc = "idle"
    /\ authorize_typos' = value
    /\ UNCHANGED <<index_vars, exec_vars, query, filter, offset, limit,
                   sort_criteria>>

\* Index::put_authorize_typos, through the transaction the Search reads
PutAuthorizeTypos(value) ==
    /\ UNCHANGED outside_search
    /\ pc = "idle"
    /\ index_authorize_typos' = value
    /\ UNCHANGED <<search_vars, exec_vars, index_criteria_sort,
                   index_sortable_fields, index_distinct_field,
                   index_fields_ids_map, index_facets, index_buckets>>

(***************************************************************************)
(* Search::execute and the loop of Search::perform_sort.                   *)
(***************************************************************************)
\* an execute that checks the sort criteria before it evaluates the filter
EarlyReturnSortFirst ==
    IF SortCheck(sort_criteria, index_sortable_fields).some
        THEN Some(Err(SortCheck(sort_criteria, index_sortable_fields).v))
    ELSE IF SortRuleCheck(sort_criteria, index_criteria_sort)
        THEN Some(Err([kind |-> "SortRankingRuleMissing"]))
    ELSE IF filter.some /\ filter.v = "invalid"
        THEN Some(Err([kind |-> "InvalidFilter"]))
    ELSE IF DistinctKind = "NoFieldId"
        THEN Some(SearchResultDefault)
    ELSE None

\* what execute returns before perform_sort, None when it reaches the
\* match on index.distinct_field with a field id or no distinct field
EarlyReturn ==
    IF filter.some /\ filter.v = "invalid"
        THEN Some(Err([kind |-> "InvalidFilter"]))
    ELSE IF SortCheck(sort_criteria, index_sortable_fields).some
        THEN Some(Err(SortCheck(sort_criteria, index_sortable_fields).v))
    ELSE IF SortRuleCheck(sort_criteria, index_criteria_sort)
        THEN Some(Err([kind |-> "SortRankingRuleMissing"]))
    ELSE IF DistinctKind = "NoFieldId"
        THEN Some(SearchResultDefault)
    ELSE None

\* Search::execute up to the entry of perform_sort
Execute ==
    /\ UNCHANGED outside_search
    /\ pc = "idle"
    /\ builder_typos' = IF query.some THEN Some(is_typo_authorized) ELSE None
    /\ IF EarlyReturn.some
       THEN /\ pc' = "done"
            /\ result' = EarlyReturn
            /\ UNCHANGED offset_left
       ELSE /\ pc' = "loop"
            /\ offset_left' = offset
            /\ UNCHANGED result
    /\ UNCHANGED <<index_vars, search_vars, criteria_pos, initial_candidates,
                   excluded_candidates, documents_ids, next_calls,
                   distinct_calls>>

\* a loop that goes on with `limit` ids collected
LoopBucketNeverBreaks ==
    /\ UNCHANGED outside_search
    /\ pc = "loop"
    /\ LET n == CriteriaNext(criteria_pos, excluded_candidates)
       IN /\ n.some
          /\ LET b == LoopBody(n.v)
             IN /\ offset_left' = b.offset
                /\ initial_candidates' = b.initial
                /\ documents_ids' = b.documents_ids
                /\ excluded_candidates' = b.excluded
                /\ distinct_calls' =
                       Append(distinct_calls,
                              [excluded |-> b.handed,
                               into_excluded |-> Some(b.excluded)])
                /\ pc' = "loop"
                /\ UNCHANGED result
    /\ criteria_pos' = criteria_pos + 1
    /\ next_calls' = Append(next_calls, excluded_candidates)
    /\ UNCHANGED <<index_vars, search_vars, builder_typos>>

\* perform_sort: criteria.next yields a bucket, the body of the loop runs
LoopBucket ==
    /\ UNCHANGED outside_search
    /\ pc = "loop"
    /\ LET n == CriteriaNext(criteria_pos, excluded_candidates)
       IN /\ n.some
          /\ LET b == LoopBody(n.v)
             IN /\ offset_left' = b.offset
                /\ initial_candidates' = b.initial
                /\ documents_ids' = b.documents_ids
                /\ excluded_candidates' = ExcludedAfter(b.break, b.excluded)
                /\ distinct_calls' =
                       Append(distinct_calls,
                              [excluded |-> b.handed,
                               into_excluded |-> IF b.break THEN None
                                                 ELSE Some(b.excluded)])
                /\ IF b.break
                   THEN /\ pc' = "done"
                        /\ result' = Some(SearchResult(b.initial, b.documents_ids))
                   ELSE /\ pc' = "loop"
                        /\ UNCHANGED result
    /\ criteria_pos' = criteria_pos + 1
    /\ next_calls' = Append(next_calls, excluded_candidates)
    /\ UNCHANGED <<index_vars, search_vars, builder_typos>>

\* an end of the loop that subtracts nothing from the candidates
LoopEndKeepsExcluded ==
    /\ UNCHANGED outside_search
    /\ pc = "loop"
    /\ ~CriteriaNext(criteria_pos, excluded_candidates).some
    /\ pc' = "done"
    /\ next_calls' = Append(next_calls, excluded_candidates)
    /\ result' = Some(SearchResult(initial_candidates, documents_ids))
    /\ UNCHANGED <<index_vars, search_vars, builder_typos, criteria_pos,
                   offset_left, initial_candidates, excluded_candidates,
                   documents_ids, distinct_calls>>

\* perform_sort: criteria.next yields None, the loop ends
LoopEnd ==
    /\ UNCHANGED outside_search
    /\ pc = "loop"
    /\ ~CriteriaNext(criteria_pos, excluded_candidates).some
    /\ pc' = "done"
    /\ next_calls' = Append(next_calls, excluded_candidates)
    /\ result' = Some(SearchResult(initial_candidates \ excluded_candidates,
                                   documents_ids))
    /\ UNCHANGED <<index_vars, search_vars, builder_typos, criteria_pos,
                   offset_left, initial_candidates, excluded_candidates,
                   documents_ids, distinct_calls>>

\* the caller takes the result; the Search can be configured and run again
Return ==
    /\ UNCHANGED outside_search
    /\ pc = "done"
    /\ pc' = "idle"
    /\ builder_typos' = None
    /\ criteria_pos' = 0
    /\ offset_left' = 0
    /\ initial_candidates' = {}
    /\ excluded_candidates' = {}
    /\ documents_ids' = <<>>
    /\ next_calls' = <<>>
    /\ distinct_calls' = <<>>
    /\ result' = None
    /\ UNCHANGED <<index_vars, search_vars>>

SetOffset == \E k \in 0..MaxOffset : Offset(k)
SetLimit == \E m \in 0..MaxLimit \cup {DefaultLimit} : Limit(m)

Next ==
    \/ SetOffset
    \/ SetLimit
    \/ Execute
    \/ LoopBucket
    \/ LoopEnd
    \/ Return

Spec == Init /\ [][Next]_vars

(***************************************************************************)
(* Second specification of Search: any sort settings of the index, every   *)
(* builder method that feeds the checks of execute, one fixed content.     *)
(***************************************************************************)
InitValidate ==
    /\ index_criteria_sort \in BOOLEAN
    /\ index_sortable_fields \in SUBSET SortablePaths
    /\ index_distinct_field = None
    /\ index_fields_ids_map = {}
    /\ index_authorize_typos = TRUE
    /\ index_facets = [d \in Docs |-> {}]
    /\ index_buckets = <<Docs>>
    /\ SearchNew
    /\ ExecIdle
    /\ DeriveIdle
    /\ IngestIdle
    /\ MergerIdle

SetQuery == Query("q")
SetFilter == \E c \in {"valid", "invalid"} : Filter(c)
SetSortCriteria == \E sc \in SortLists : SortCriteria(sc)
SetAuthorizeTypos == \E b \in BOOLEAN : AuthorizeTypos(b)
SetIndexAuthorizeTypos == \E b \in BOOLEAN : PutAuthorizeTypos(b)

NextValidate ==
    \/ SetQuery
    \/ SetFilter
    \/ SetSortCriteria
    \/ SetAuthorizeTypos
    \/ SetIndexAuthorizeTypos
    \/ Execute
    \/ LoopBucket
    \/ LoopEnd
    \/ Return

SpecValidate == InitValidate /\ [][NextValidate]_vars

(***************************************************************************)
(* Third specification of Search: any distinct setting of the index, a     *)
(* query, a filter, an offset and a limit, two buckets.                    *)
(***************************************************************************)
InitDistinct ==
    /\ index_criteria_sort = FALSE
    /\ index_sortable_fields = {}
    /\ index_distinct_field \in {None, Some(DistinctName)}
    /\ index_fields_ids_map \in SUBSET {DistinctName}
    /\ index_authorize_typos = TRUE
    /\ index_facets \in FacetAssignments
    /\ DistinctKind # "Facet" => index_facets = [d \in Docs |-> {}]
    /\ index_buckets = <<{1, 2}, Docs \ {1, 2}>>
    /\ SearchNew
    /\ ExecIdle
    /\ DeriveIdle
    /\ IngestIdle
    /\ MergerIdle

NextDistinct ==
    \/ SetQuery
    \/ SetFilter
    \/ SetOffset
    \/ SetLimit
    \/ Execute
    \/ LoopBucket
    \/ LoopEnd
    \/ Return

SpecDistinct == InitDistinct /\ [][NextDistinct]_vars

(***************************************************************************)
(* Properties of Search.                                                   *)
(***************************************************************************)
RECURSIVE Flatten(_)
\* the buckets in order, each in ascending id order
Flatten(bs) ==
    IF bs = <<>> THEN <<>> ELSE SetToSeq(Head(bs)) \o Flatten(Tail(bs))

RECURSIVE FirstOfEachValue(_, _)
\* the ids of `ids` that share no value of the distinct field with an id
\* kept before them
FirstOfEachValue(ids, seen) ==
    IF ids = <<>> THEN <<>>
    ELSE IF index_facets[Head(ids)] \cap seen # {}
         THEN FirstOfEachValue(Tail(ids), seen)
         ELSE <<Head(ids)>> \o
              FirstOfEachValue(Tail(ids), seen \cup index_facets[Head(ids)])

\* d_0..d_{N-1}: what the criteria yield after distinct filtering
Ranked ==
    IF DistinctKind = "Facet" THEN FirstOfEachValue(Flatten(index_buckets), {})
    ELSE Flatten(index_buckets)

\* execute went through perform_sort and returned
SortPerformed == pc = "done" /\ ~EarlyReturn.some

\* C1: the ids returned by execute are the ranked ids number offset to
\* min(offset + limit, N) - 1, in ranked order, the offset being counted
\* over the whole ranked sequence and not per bucket.
PagingIsASliceOfTheRanking ==
    SortPerformed =>
        result.v.documents_ids =
            SubSeq(Ranked, offset + 1, Min(offset + limit, Len(Ranked)))

\* an offset larger than the first bucket, ids returned from the second
PagingAcrossBuckets ==
    /\ SortPerformed
    /\ Len(index_buckets) = 2
    /\ offset > Cardinality(index_buckets[1])
    /\ Cardinality(index_buckets[1]) > 0
    /\ limit = 1
    /\ Len(Ranked) > offset
    /\ Len(result.v.documents_ids) = 1
    /\ result.v.documents_ids[1] \in index_buckets[2]

\* C2: with a distinct field that has a field id, no two returned ids share
\* a value of that field.
DistinctValuesInResult ==
    (SortPerformed /\ DistinctKind = "Facet") =>
        \A i, j \in 1..Len(result.v.documents_ids) :
            i # j => index_facets[result.v.documents_ids[i]]
                        \cap index_facets[result.v.documents_ids[j]] = {}

\* two ids returned from two buckets while an id of the second bucket
\* shares a value with the one returned from the first
DistinctAcrossBuckets ==
    /\ SortPerformed
    /\ DistinctKind = "Facet"
    /\ Len(index_buckets) = 2
    /\ Len(result.v.documents_ids) = 2
    /\ result.v.documents_ids[1] \in index_buckets[1]
    /\ result.v.documents_ids[2] \in index_buckets[2]
    /\ \E d \in index_buckets[2] :
          index_facets[d] \cap index_facets[result.v.documents_ids[1]] # {}

\* execute returned the error `kind`
Failed(kind) ==
    /\ pc = "done"
    /\ result.v.kind = "Err"
    /\ result.v.error.kind = kind

SortRequested == sort_criteria.some /\ sort_criteria.v # <<>>
FilterFails == filter.some /\ filter.v = "invalid"

\* the sort criteria that lines 157-176 reject
RejectedCriteria ==
    IF ~sort_criteria.some THEN {}
    ELSE {i \in 1..Len(sort_criteria.v) :
            LET m == sort_criteria.v[i]
            IN \/ /\ m.kind = "Field"
                  /\ \A f \in index_sortable_fields : ~is_faceted_by(m.name, f)
               \/ /\ m.kind = "Geo"
                  /\ GeoPath \notin index_sortable_fields}

\* C3 as stated: execute fails with SortRankingRuleMissing whenever sort
\* criteria are given and the Sort rule is absent, and only then.
SortRuleMissingWheneverSortRequested ==
    pc = "done" =>
        (Failed("SortRankingRuleMissing")
            <=> (SortRequested /\ ~index_criteria_sort))

\* C3: execute fails with SortRankingRuleMissing exactly when sort criteria
\* are given, the Sort rule is absent, the filter evaluated and every sort
\* member passed the sortable check; never when sort_criteria is unset or
\* empty or Sort is configured.
SortRuleMissingAfterEarlierChecks ==
    pc = "done" =>
        (Failed("SortRankingRuleMissing")
            <=> /\ SortRequested
                /\ ~index_criteria_sort
                /\ ~FilterFails
                /\ RejectedCriteria = {})

\* execute did fail with SortRankingRuleMissing
SortRuleMissingReported ==
    /\ Failed("SortRankingRuleMissing")
    /\ Len(sort_criteria.v) = 2
    /\ filter.some

\* C4 as stated: once the filter evaluated, execute fails with
\* InvalidSortableAttribute exactly when a sort member is a field that is
\* not sortable; a `_geo` member is always accepted.
GeoMemberAlwaysAccepted ==
    (pc = "done" /\ ~FilterFails) =>
        (Failed("InvalidSortableAttribute")
            <=> \E i \in RejectedCriteria : sort_criteria.v[i].kind = "Field")

\* C4: once the filter evaluated, execute fails with
\* InvalidSortableAttribute exactly when a sort member is a field that
\* is_faceted does not find in sortable_fields, or is `_geo` while `_geo`
\* is not in sortable_fields; the error names the first such member.
SortMembersMustBeSortable ==
    (pc = "done" /\ ~FilterFails) =>
        /\ Failed("InvalidSortableAttribute") <=> RejectedCriteria # {}
        /\ Failed("InvalidSortableAttribute") =>
              \E i \in RejectedCriteria :
                 /\ \A j \in RejectedCriteria : i <= j
                 /\ result.v.error.field =
                       IF sort_criteria.v[i].kind = "Geo" THEN GeoPath
                       ELSE sort_criteria.v[i].name

\* a `_geo` member rejected after a sortable field was accepted
GeoMemberRejected ==
    /\ Failed("InvalidSortableAttribute")
    /\ result.v.error.field = GeoPath
    /\ Len(sort_criteria.v) = 2
    /\ sort_criteria.v[1] = Field(<<"price", "eur">>)

\* C5: both flags start true, and the value execute gives to the query
\* tree builder is the conjunction of the per-query flag and the index flag
\* as they are at that time.
TypoAuthorizationIsConjunction ==
    /\ authorize_typos = TRUE
    /\ index_authorize_typos = TRUE
    /\ [](pc # "idle" /\ query.some
            => builder_typos = Some(authorize_typos /\ index_authorize_typos))

\* the query allows typos, the index forbids them, the builder got false
TyposRefusedByIndexAlone ==
    /\ pc = "done"
    /\ query.some
    /\ authorize_typos
    /\ ~index_authorize_typos
    /\ builder_typos = Some(FALSE)

(***************************************************************************)
(* word_derivations.  A word is a sequence of characters, a character is   *)
(* one byte: 1 is "a", 2 is "b".  A key of the fst is a sequence of bytes. *)
(***************************************************************************)
Utf8Chars == {1, 2}

\* a continuation byte with no leading byte: no UTF-8 text holds it alone,
\* and the byte automata read it as one unknown character
InvalidByte == 128

SeqsUpTo(S, n) == UNION {[1..k -> S] : k \in 0..n}

\* byte order of the keys of an fst
KeyLess(a, b) ==
    \E i \in 1..(Len(a) + 1) :
        /\ i <= Len(b)
        /\ \A j \in 1..(i - 1) : a[j] = b[j]
        /\ (i = Len(a) + 1 \/ a[i] < b[i])

RECURSIVE KeysInOrder(_)
\* the keys of a set in the order an fst stream visits them
KeysInOrder(S) ==
    IF S = {} THEN <<>>
    ELSE LET m == CHOOSE x \in S : \A y \in S \ {x} : KeyLess(x, y)
         IN <<m>> \o KeysInOrder(S \ {m})

\* std::str::from_utf8
from_utf8(bytes) ==
    IF \A i \in 1..Len(bytes) : bytes[i] \in Utf8Chars
    THEN [kind |-> "Ok", str |-> bytes]
    ELSE [kind |-> "Err", error |-> "Utf8Error"]

(***************************************************************************)
(* The Levenshtein DFA of a word: LevBuilder::new(n, true), transpositions *)
(* cost one.  A state holds the row of edit distances between the input    *)
(* read so far and every prefix of the word.  The prefix DFA stays in an   *)
(* accepting state once no prefix of the word is nearer to the input than  *)
(* the whole word (is_prefix_sink).                                        *)
(***************************************************************************)
\* build_dfa
build_dfa(word, typos, is_prefix) ==
    [type |-> "Lev", word |-> word, n |-> IF typos = 0 THEN 0
                                          ELSE IF typos = 1 THEN 1 ELSE 2,
     prefix |-> is_prefix]

Min3(a, b, c) == Min(a, Min(b, c))

\* ParametricDFA::is_prefix_sink
is_prefix_sink(dfa, row) ==
    LET m == Len(dfa.word)
    IN /\ dfa.prefix
       /\ row[m] <= dfa.n
       /\ \A j \in 0..(m - 1) : row[j] >= row[m]

LevStart(dfa) ==
    LET m == Len(dfa.word)
        row == [j \in 0..m |-> j]
    IN [st |-> IF is_prefix_sink(dfa, row) THEN "sunk" ELSE "run",
        row |-> row, prev |-> row, last |-> 0, read |-> 0]

RECURSIVE LevRow(_, _, _, _)
\* the row after byte `b`, filled from column 0 to column j
LevRow(dfa, s, b, j) ==
    IF j = 0 THEN [k \in {0} |-> s.row[0] + 1]
    ELSE LET left == LevRow(dfa, s, b, j - 1)
             subst == s.row[j - 1] + (IF dfa.word[j] = b THEN 0 ELSE 1)
             plain == Min3(s.row[j] + 1, left[j - 1] + 1, subst)
             swap == /\ j >= 2
                     /\ s.read >= 1
                     /\ dfa.word[j - 1] = b
                     /\ dfa.word[j] = s.last
             cell == IF swap THEN Min(plain, s.prev[j - 2] + 1) ELSE plain
         IN [k \in 0..j |-> IF k = j THEN cell ELSE left[k]]

LevAccept(dfa, s, b) ==
    IF s.st # "run" THEN s
    ELSE LET m == Len(dfa.word)
             row == LevRow(dfa, s, b, m)
         IN [st |-> IF is_prefix_sink(dfa, row) THEN "sunk" ELSE "run",
             row |-> row, prev |-> s.row, last |-> b, read |-> s.read + 1]

\* DFA::distance: Exact(d) in the accepting states, AtLeast(d) elsewhere
LevDistance(dfa, s) ==
    LET d == s.row[Len(dfa.word)]
    IN IF d <= dfa.n THEN [exact |-> TRUE, d |-> d]
       ELSE [exact |-> FALSE, d |-> dfa.n + 1]

\* Distance::to_u8
to_u8(distance) == distance.d

(***************************************************************************)
(* The automata of fst_utils.                                              *)
(***************************************************************************)
Str(str) == [type |-> "Str", str |-> str]
StartsWith(inner) == [type |-> "StartsWith", inner |-> inner]
Complement(inner) == [type |-> "Complement", inner |-> inner]
Intersection(a, b) == [type |-> "Intersection", a |-> a, b |-> b]
Union(a, b) == [type |-> "Union", a |-> a, b |-> b]

RECURSIVE AutIsMatch(_, _)
RECURSIVE AutStart(_)
RECURSIVE AutAccept(_, _, _)

\* Automaton::start
AutStart(aut) ==
    CASE aut.type = "Lev" -> LevStart(aut)
      [] aut.type = "Str" -> [pos |-> 0]
      [] aut.type = "StartsWith" ->
            LET inner == AutStart(aut.inner)
            IN IF AutIsMatch(aut.inner, inner) THEN [done |-> TRUE]
               ELSE [done |-> FALSE, inner |-> inner]
      [] aut.type = "Complement" -> AutStart(aut.inner)
      [] OTHER -> <<AutStart(aut.a), AutStart(aut.b)>>

\* Automaton::is_match
AutIsMatch(aut, state) ==
    CASE aut.type = "Lev" -> LevDistance(aut, state).exact
      [] aut.type = "Str" -> state.pos = Len(aut.str)
      [] aut.type = "StartsWith" -> state.done
      [] aut.type = "Complement" -> ~AutIsMatch(aut.inner, state)
      [] aut.type = "Intersection" ->
            AutIsMatch(aut.a, state[1]) /\ AutIsMatch(aut.b, state[2])
      [] OTHER -> AutIsMatch(aut.a, state[1]) \/ AutIsMatch(aut.b, state[2])

\* Automaton::accept
AutAccept(aut, state, byte) ==
    CASE aut.type = "Lev" -> LevAccept(aut, state, byte)
      [] aut.type = "Str" ->
            IF state.pos >= 0 /\ state.pos < Len(aut.str)
                              /\ aut.str[state.pos + 1] = byte
            THEN [pos |-> state.pos + 1] ELSE [pos |-> -1]
      [] aut.type = "StartsWith" ->
            IF state.done THEN state
            ELSE LET inner == AutAccept(aut.inner, state.inner, byte)
                 IN IF AutIsMatch(aut.inner, inner) THEN [done |-> TRUE]
                    ELSE [done |-> FALSE, inner |-> inner]
      [] aut.type = "Complement" -> AutAccept(aut.inner, state, byte)
      [] OTHER -> <<AutAccept(aut.a, state[1], byte),
                    AutAccept(aut.b, state[2], byte)>>

RECURSIVE AutRun(_, _, _)
\* the state after the bytes of `key` from position i on
AutRun(aut, state, key) ==
    IF key = <<>> THEN state
    ELSE AutRun(aut, AutAccept(aut, state, Head(key)), Tail(key))

RECURSIVE SelectMatches(_, _)
SelectMatches(aut, keys) ==
    IF keys = <<>> THEN <<>>
    ELSE LET state == AutRun(aut, AutStart(aut), Head(keys))
             rest == SelectMatches(aut, Tail(keys))
         IN IF AutIsMatch(aut, state)
            THEN <<[key |-> Head(keys), state |-> state]>> \o rest
            ELSE rest

\* fst.search_with_state(aut).into_stream(): the matching keys in key order,
\* each with the state the automaton ends in
StreamWithState(keys, aut) == SelectMatches(aut, KeysInOrder(keys))

(***************************************************************************)
(* word_derivations, the Vacant arm.                                       *)
(***************************************************************************)
Ok(list) == [kind |-> "Ok", list |-> list]
Utf8Error == [kind |-> "Err", error |-> "Utf8Error"]
Panic == [kind |-> "Panic", msg |-> "unexpected empty query"]

\* get_first: the first character, a panic on the empty string
get_first(str) ==
    IF str = <<>> THEN [panic |-> TRUE]
    ELSE [panic |-> FALSE, first |-> SubSeq(str, 1, 1)]

\* the distance pushed by the loop of lines 334-346 for a key that is not
\* empty: 2 when the first characters differ, else the distance of the
\* second DFA in the state (state.1).0
TwoTypoDistance(found_word, word, second_dfa, state) ==
    IF get_first(found_word).first # get_first(word).first THEN 2
    ELSE to_u8(LevDistance(second_dfa, state[2][1]))

RECURSIVE PushPrefixes(_, _)
\* the loop of lines 306-309
PushPrefixes(matches, derived_words) ==
    IF matches = <<>> THEN Ok(derived_words)
    ELSE LET w == from_utf8(Head(matches).key)
         IN IF w.kind = "Err" THEN Utf8Error
            ELSE PushPrefixes(Tail(matches), Append(derived_words, <<w.str, 0>>))

RECURSIVE PushOneTypo(_, _, _)
\* the loop of lines 320-324: d = dfa.distance(state.1)
PushOneTypo(matches, dfa, derived_words) ==
    IF matches = <<>> THEN Ok(derived_words)
    ELSE LET w == from_utf8(Head(matches).key)
             d == LevDistance(dfa, Head(matches).state[2])
         IN IF w.kind = "Err" THEN Utf8Error
            ELSE PushOneTypo(Tail(matches), dfa,
                             Append(derived_words, <<w.str, to_u8(d)>>))

RECURSIVE PushTwoTypos(_, _, _, _)
\* the loop of lines 334-346
PushTwoTypos(matches, word, second_dfa, derived_words) ==
    IF matches = <<>> THEN Ok(derived_words)
    ELSE LET w == from_utf8(Head(matches).key)
         IN IF w.kind = "Err" THEN Utf8Error
            ELSE IF get_first(w.str).panic THEN Panic
            ELSE PushTwoTypos(Tail(matches), word, second_dfa,
                    Append(derived_words,
                           <<w.str, TwoTypoDistance(w.str, word, second_dfa,
                                                    Head(matches).state)>>))

\* a prefix search that forgot starts_with
PrefixAutomatonExactOnly(word) == Str(word)

\* the automaton of max_typo = 0 with is_prefix
PrefixAutomaton(word) == StartsWith(Str(word))

\* a word pushed without asking the fst
ExactWordUnchecked(word, keys) == <<<<word, 0>>>>

\* lines 310-312: the word itself when the fst contains it
ExactWord(word, keys) ==
    IF word \in keys THEN <<<<word, 0>>>> ELSE <<>>

\* a one-typo automaton that lets any first letter through
OneTypoAutomatonAnyFirstLetter(word, is_prefix) ==
    Intersection(StartsWith(Str(<<>>)), build_dfa(word, 1, is_prefix))

\* the automaton of max_typo = 1
OneTypoAutomaton(word, is_prefix) ==
    Intersection(StartsWith(Str(get_first(word).first)),
                 build_dfa(word, 1, is_prefix))

\* the automaton of max_typo >= 2
TwoTyposAutomaton(word, is_prefix) ==
    LET starts == StartsWith(Str(get_first(word).first))
        first == Intersection(build_dfa(word, 1, is_prefix), Complement(starts))
        second == Intersection(build_dfa(word, 2, is_prefix), starts)
    IN Union(first, second)

\* lines 300-348: Ok(derived_words), a Utf8Error or a panic
DerivedWords(word, is_prefix, max_typo, keys) ==
    IF max_typo = 0
    THEN IF is_prefix
         THEN PushPrefixes(StreamWithState(keys, PrefixAutomaton(word)), <<>>)
         ELSE Ok(ExactWord(word, keys))
    ELSE IF get_first(word).panic THEN Panic
    ELSE IF max_typo = 1
         THEN PushOneTypo(StreamWithState(keys, OneTypoAutomaton(word, is_prefix)),
                          build_dfa(word, 1, is_prefix), <<>>)
         ELSE PushTwoTypos(StreamWithState(keys, TwoTyposAutomaton(word, is_prefix)),
                           word, build_dfa(word, 2, is_prefix), <<>>)

\* an insertion that drops the entries of the other keys
InsertAlone(entries, key, list) == [k \in {key} |-> list]

\* line 349: entry.insert(derived_words)
Insert(entries, key, list) ==
    [k \in DOMAIN entries \cup {key} |-> IF k = key THEN list ELSE entries[k]]

\* a cache that keeps an empty list for a call that failed
CacheAfterKeepsFailure(entries, key, out) ==
    Insert(entries, key, IF out.kind = "Ok" THEN out.list ELSE <<>>)

\* the cache when the Vacant arm is left: `?` and the panic leave before
\* line 349
CacheAfter(entries, key, out) ==
    IF out.kind = "Ok" THEN Insert(entries, key, out.list) ELSE entries

\* word_derivations
WordDerivations(word, is_prefix, max_typo) ==
    /\ UNCHANGED outside_derive
    /\ ~(wd_result.some /\ wd_result.v.kind = "Panic")
    /\ wd_call' = Some(<<word, is_prefix, max_typo>>)
    /\ UNCHANGED fst
    /\ LET key == <<word, is_prefix, max_typo>>
       IN IF key \in DOMAIN cache
          THEN /\ wd_result' = Some(Ok(cache[key]))
               /\ wd_computed' = FALSE
               /\ UNCHANGED cache
          ELSE LET out == DerivedWords(word, is_prefix, max_typo, fst)
               IN /\ wd_result' = Some(out)
                  /\ wd_computed' = TRUE
                  /\ cache' = CacheAfter(cache, key, out)

\* the caller starts another query with an empty cache
NewQuery ==
    /\ UNCHANGED outside_derive
    /\ wd_call.some
    /\ cache' = <<>>
    /\ wd_call' = None
    /\ wd_computed' = FALSE
    /\ wd_result' = None
    /\ UNCHANGED fst

(***************************************************************************)
(* Specification of word_derivations: any fst of a few short keys, any     *)
(* first derivation of a query and any repetition of it.                   *)
(***************************************************************************)
\* the query words: renaming the characters maps every word onto one that
\* starts with the first character of the alphabet
Words ==
    LET first == CHOOSE c \in Utf8Chars : \A d \in Utf8Chars : c <= d
    IN {w \in SeqsUpTo(Utf8Chars, MaxWordLen) : w = <<>> \/ w[1] = first}
Keys == SeqsUpTo(Utf8Chars, MaxKeyLen)
TypoBudgets == {0, 1, 2}

RECURSIVE KeySets(_)
\* the sets of at most n keys
KeySets(n) ==
    IF n = 0 THEN {{}}
    ELSE LET smaller == KeySets(n - 1)
         IN smaller \cup {S \cup {k} : S \in smaller, k \in Keys}

InitDerive ==
    /\ index_criteria_sort = FALSE
    /\ index_sortable_fields = {}
    /\ index_distinct_field = None
    /\ index_fields_ids_map = {}
    /\ index_authorize_typos = TRUE
    /\ index_facets = [d \in Docs |-> {}]
    /\ index_buckets = <<>>
    /\ SearchNew
    /\ ExecIdle
    /\ fst \in KeySets(MaxFstKeys)
    /\ cache = <<>>
    /\ wd_call = None
    /\ wd_computed = FALSE
    /\ wd_result = None
    /\ IngestIdle
    /\ MergerIdle

Derive ==
    \E word \in Words, is_prefix \in BOOLEAN, max_typo \in TypoBudgets :
        /\ cache = <<>>
        /\ WordDerivations(word, is_prefix, max_typo)

DeriveAgain ==
    \E word \in Words, is_prefix \in BOOLEAN, max_typo \in TypoBudgets :
        /\ <<word, is_prefix, max_typo>> \in DOMAIN cache
        /\ WordDerivations(word, is_prefix, max_typo)

NextDerive ==
    \/ Derive
    \/ DeriveAgain
    \/ NewQuery

SpecDerive == InitDerive /\ [][NextDerive]_vars


(***************************************************************************)
(* Properties of word_derivations.                                         *)
(***************************************************************************)
\* the call that has just computed a list, a Utf8Error or a panic
Computed(max_typo) ==
    wd_call.some /\ wd_computed /\ wd_call.v[3] = max_typo

CalledWord == wd_call.v[1]
CalledPrefix == wd_call.v[2]
Listed == IF wd_result.v.kind = "Ok" THEN wd_result.v.list ELSE <<>>

Returned(key) == \E i \in 1..Len(Listed) : Listed[i][1] = key
ReportedDistances(key) ==
    {Listed[i][2] : i \in {k \in 1..Len(Listed) : Listed[k][1] = key}}
ReturnedOnce ==
    Cardinality({Listed[i][1] : i \in 1..Len(Listed)}) = Len(Listed)

IsPrefixOf(p, key) == Len(p) <= Len(key) /\ SubSeq(key, 1, Len(p)) = p
SameFirstCharacter(key, word) == key # <<>> /\ key[1] = word[1]
OtherFirstCharacter(key, word) == key # <<>> /\ key[1] # word[1]

\* the Levenshtein automaton of the called word, run alone over a key
AutomatonOf(n) == build_dfa(CalledWord, n, CalledPrefix)
EndState(n, key) == AutRun(AutomatonOf(n), AutStart(AutomatonOf(n)), key)
AcceptedBy(n, key) == AutIsMatch(AutomatonOf(n), EndState(n, key))
AutomatonDistance(n, key) == to_u8(LevDistance(AutomatonOf(n), EndState(n, key)))

\* one insertion, deletion, substitution or swap of neighbours at most
Without(s, i) == SubSeq(s, 1, i - 1) \o SubSeq(s, i + 1, Len(s))
WithinOneEdit(a, b) ==
    \/ a = b
    \/ /\ Len(a) = Len(b)
       /\ \E i \in 1..Len(a) : [a EXCEPT ![i] = b[i]] = b
    \/ /\ Len(a) = Len(b)
       /\ \E i \in 1..(Len(a) - 1) :
              [a EXCEPT ![i] = a[i + 1], ![i + 1] = a[i]] = b
    \/ /\ Len(a) = Len(b) + 1
       /\ \E i \in 1..Len(a) : Without(a, i) = b
    \/ /\ Len(b) = Len(a) + 1
       /\ \E i \in 1..Len(b) : Without(b, i) = a
NearWord(key, word, is_prefix) ==
    IF is_prefix
    THEN \E n \in 0..Len(key) : WithinOneEdit(SubSeq(key, 1, n), word)
    ELSE WithinOneEdit(key, word)

\* C6: with max_typo = 1 and a word that is not empty, the result lists,
\* once each, exactly the keys of the fst that start with the first character
\* of the word and that the distance-1 automaton of the word accepts (the
\* prefix automaton when is_prefix), which are the keys within one edit of
\* the word; each comes with the distance of that automaton, 0 or 1, and no
\* key with another first character is returned.
OneTypoKeepsTheFirstLetter ==
    (Computed(1) /\ CalledWord # <<>>) =>
        /\ wd_result.v.kind = "Ok"
        /\ ReturnedOnce
        /\ \A i \in 1..Len(Listed) : Listed[i][1] \in fst
        /\ \A key \in fst :
              /\ Returned(key) <=> (/\ SameFirstCharacter(key, CalledWord)
                                    /\ AcceptedBy(1, key))
              /\ AcceptedBy(1, key) <=> NearWord(key, CalledWord, CalledPrefix)
              /\ ReportedDistances(key) \subseteq {AutomatonDistance(1, key)}
              /\ ReportedDistances(key) \subseteq {0, 1}

\* a key one typo away is returned while a key whose only typo is on the
\* first letter is left out
OneTypoFirstLetterLeftOut ==
    /\ Computed(1)
    /\ CalledWord # <<>>
    /\ \E near \in fst, other \in fst :
          /\ Returned(near) /\ ReportedDistances(near) = {1}
          /\ OtherFirstCharacter(other, CalledWord)
          /\ AcceptedBy(1, other)
          /\ ~Returned(other)

\* C7 as stated: with max_typo = 2 a key whose first character differs from
\* the word's is returned exactly when it is within one edit of the word
\* (of one of its prefixes when is_prefix), and then with distance 2.
FirstLetterTypoReturnedWithTwo ==
    (Computed(2) /\ CalledWord # <<>>) =>
        \A key \in fst :
            OtherFirstCharacter(key, CalledWord) =>
                /\ Returned(key) <=> NearWord(key, CalledWord, CalledPrefix)
                /\ ReportedDistances(key) \subseteq {2}

\* C8 as stated: with max_typo = 2 a key that starts with the first character
\* of the word is returned exactly when the distance-2 automaton of the word
\* accepts it, and then with the distance of that automaton, 1 or 2.
SameLetterReturnedWithOneOrTwo ==
    (Computed(2) /\ CalledWord # <<>>) =>
        \A key \in fst :
            SameFirstCharacter(key, CalledWord) =>
                /\ Returned(key) <=> AcceptedBy(2, key)
                /\ ReportedDistances(key) \subseteq {AutomatonDistance(2, key)}
                /\ ReportedDistances(key) \subseteq {1, 2}

\* C9: with max_typo = 0 and is_prefix false the result is [(word, 0)] when
\* the word is a key of the fst and the empty list when it is not.
ExactWordOrNothing ==
    (Computed(0) /\ ~CalledPrefix) =>
        /\ wd_result.v.kind = "Ok"
        /\ CalledWord \in fst => Listed = <<<<CalledWord, 0>>>>
        /\ CalledWord \notin fst => Listed = <<>>

\* the word is found although the fst holds a longer key starting with it,
\* which is not returned
ExactWordAmongLongerKeys ==
    /\ Computed(0)
    /\ ~CalledPrefix
    /\ Listed = <<<<CalledWord, 0>>>>
    /\ \E key \in fst : key # CalledWord /\ IsPrefixOf(CalledWord, key)

\* C10: with max_typo = 0 and is_prefix true the result lists, once each and
\* with distance 0, exactly the keys of the fst that start with the word.
PrefixKeysWithZero ==
    (Computed(0) /\ CalledPrefix) =>
        /\ wd_result.v.kind = "Ok"
        /\ ReturnedOnce
        /\ \A i \in 1..Len(Listed) :
              Listed[i][1] \in fst /\ Listed[i][2] = 0
        /\ \A key \in fst : Returned(key) <=> IsPrefixOf(CalledWord, key)

\* a longer key starting with the word is found, another key is not
PrefixFindsLongerKey ==
    /\ Computed(0)
    /\ CalledPrefix
    /\ CalledWord # <<>>
    /\ \E found \in fst, other \in fst :
          /\ Returned(found) /\ Len(found) > Len(CalledWord)
          /\ ~Returned(other)


(***************************************************************************)
(* Specification of the derivation cache: one-character query words over   *)
(* fsts of one or two short keys, some of them not UTF-8, and a cache that *)
(* fills up during a query.                                                *)
(***************************************************************************)
CacheBytes == Utf8Chars \cup {InvalidByte}
CacheWords == {<<c>> : c \in Utf8Chars}
CacheKeys ==
    {<<>>} \cup {<<b>> : b \in CacheBytes}
           \cup {<<b, c>> : b \in CacheBytes, c \in CacheBytes}
CacheFsts == {{k1, k2} : k1 \in CacheKeys, k2 \in CacheKeys}

InitCache ==
    /\ index_criteria_sort = FALSE
    /\ index_sortable_fields = {}
    /\ index_distinct_field = None
    /\ index_fields_ids_map = {}
    /\ index_authorize_typos = TRUE
    /\ index_facets = [d \in Docs |-> {}]
    /\ index_buckets = <<>>
    /\ SearchNew
    /\ ExecIdle
    /\ fst \in CacheFsts
    /\ cache = <<>>
    /\ wd_call = None
    /\ wd_computed = FALSE
    /\ wd_result = None
    /\ IngestIdle
    /\ MergerIdle

\* a call whose key is not in the cache
CacheMiss ==
    \E word \in CacheWords, is_prefix \in BOOLEAN, max_typo \in TypoBudgets :
        /\ <<word, is_prefix, max_typo>> \notin DOMAIN cache
        /\ Cardinality(DOMAIN cache) < MaxCacheEntries
        /\ WordDerivations(word, is_prefix, max_typo)

\* a call whose key is in the cache
CacheHit ==
    \E word \in CacheWords, is_prefix \in BOOLEAN, max_typo \in TypoBudgets :
        /\ <<word, is_prefix, max_typo>> \in DOMAIN cache
        /\ WordDerivations(word, is_prefix, max_typo)

NextCache ==
    \/ CacheMiss
    \/ CacheHit
    \/ NewQuery

SpecCache == InitCache /\ [][NextCache]_vars

\* C11: a call that returns a list leaves the cache with an entry under its
\* own key equal to that list; a call whose key is already in the cache
\* returns the cached list without computing it; and no call changes or
\* removes an entry, or adds one under another key.
CacheKeepsWhatItReturned ==
    [][wd_call'.some =>
          /\ \A k \in DOMAIN cache : k \in DOMAIN cache' /\ cache'[k] = cache[k]
          /\ DOMAIN cache' \subseteq DOMAIN cache \cup {wd_call'.v}
          /\ wd_result'.v.kind = "Ok" =>
                /\ wd_call'.v \in DOMAIN cache'
                /\ cache'[wd_call'.v] = wd_result'.v.list
          /\ wd_call'.v \in DOMAIN cache =>
                /\ wd_result' = Some(Ok(cache[wd_call'.v]))
                /\ wd_computed' = FALSE]_vars

\* a list that is not empty is answered from the cache while the cache holds
\* another list under another key
CacheAnswersAmongOthers ==
    /\ wd_call.some
    /\ ~wd_computed
    /\ wd_result.v.kind = "Ok"
    /\ wd_result.v.list # <<>>
    /\ \E k \in DOMAIN cache : k # wd_call.v /\ cache[k] # cache[wd_call.v]

ValidUtf8(key) == \A i \in 1..Len(key) : key[i] \in Utf8Chars

\* the keys that the automaton of the call lets through
MatchedByCall(key) ==
    LET max_typo == wd_call.v[3]
        same == IsPrefixOf(SubSeq(CalledWord, 1, 1), key)
    IN CASE max_typo = 0 -> CalledPrefix /\ IsPrefixOf(CalledWord, key)
         [] max_typo = 1 -> same /\ AcceptedBy(1, key)
         [] OTHER -> \/ ~same /\ AcceptedBy(1, key)
                     \/ same /\ AcceptedBy(2, key)

\* the loop takes a key that is not UTF-8 from the stream: the empty key
\* comes first in every stream and stops the loop of max_typo = 2
DecodesInvalidKey ==
    /\ \E key \in fst : MatchedByCall(key) /\ ~ValidUtf8(key)
    /\ ~(wd_call.v[3] = 2 /\ <<>> \in fst /\ MatchedByCall(<<>>))

\* C12: a call of word_derivations returns a Utf8Error exactly when its loop
\* takes from the stream a key that is not valid UTF-8, and such a call
\* leaves the cache as it was, with no entry under its key.
Utf8ErrorLeavesCacheAlone ==
    /\ [](wd_call.some /\ wd_computed =>
              (wd_result.v = Utf8Error <=> DecodesInvalidKey))
    /\ [][wd_call'.some /\ wd_result'.v = Utf8Error =>
              cache' = cache /\ wd_call'.v \notin DOMAIN cache']_vars

\* a typo-tolerant call fails on a key that is not UTF-8 while the cache
\* holds the list of an earlier call
Utf8ErrorAfterCachedCall ==
    /\ wd_call.some
    /\ wd_result.v = Utf8Error
    /\ wd_call.v[3] >= 1
    /\ DOMAIN cache # {}


(***************************************************************************)
(* Document addition: IndexDocuments.  A value, a word and an external id  *)
(* are sequences of characters; a document is a function from its field    *)
(* names to their values and always has the primary key "id"; every value  *)
(* is one word.  Word docids stand for the postings databases.             *)
(***************************************************************************)
\* documents of one add_documents batch, documents one builder takes
MaxBatchLen == 1
MaxAdded == 2

ReplaceDocuments == "ReplaceDocuments"
UpdateDocuments == "UpdateDocuments"
Methods == {ReplaceDocuments, UpdateDocuments}

PrimaryKey == "id"
AllowedIdChars == {"1", "2", "b", "_", "-"}
ValidIds == {<<"1">>, <<"2">>}
InvalidIds == {<<"b", " ", "b">>}

\* the pattern [A-Za-z0-9_-]+
valid_document_id(id) ==
    id # <<>> /\ \A i \in 1..Len(id) : id[i] \in AllowedIdChars

\* what a document says besides its id
InputFields ==
    {[f \in {"name"} |-> <<"k">>],
     [f \in {"name"} |-> <<"v">>],
     [f \in {"age"} |-> <<"7">>]}

Put(f, key, value) ==
    [k \in DOMAIN f \cup {key} |-> IF k = key THEN value ELSE f[k]]

\* the fields of `new` laid over those of `old`
Overlay(old, new) ==
    [f \in DOMAIN old \cup DOMAIN new |->
        IF f \in DOMAIN new THEN new[f] ELSE old[f]]

InputDocuments ==
    {Put(c, PrimaryKey, id) : id \in ValidIds, c \in InputFields}
        \cup {Put([f \in {"name"} |-> <<"k">>], PrimaryKey, id) : id \in InvalidIds}

Batches == SeqsUpTo(InputDocuments, MaxBatchLen)

WordsOf(document) == {document[f] : f \in DOMAIN document}

(***************************************************************************)
(* Transform: the staging of the documents of a builder.                   *)
(***************************************************************************)
\* Transform::new
TransformNew(update_method) ==
    [update_method |-> update_method, staged |-> <<>>, arrival |-> <<>>]

RECURSIVE ReadDocuments(_, _)
\* Transform::read_documents
ReadDocuments(transform, batch) ==
    IF batch = <<>> THEN [kind |-> "Ok", transform |-> transform]
    ELSE LET document == Head(batch)
             id == document[PrimaryKey]
             merged == IF /\ id \in DOMAIN transform.staged
                          /\ transform.update_method = UpdateDocuments
                       THEN Overlay(transform.staged[id], document)
                       ELSE document
         IN IF ~valid_document_id(id)
            THEN [kind |-> "Err", error |-> "InvalidDocumentId"]
            ELSE ReadDocuments(
                    [transform EXCEPT
                        !.staged = Put(transform.staged, id, merged),
                        !.arrival = IF id \in DOMAIN transform.staged
                                    THEN transform.arrival
                                    ELSE Append(transform.arrival, id)],
                    Tail(batch))

\* AvailableDocumentsIds: the smallest id that is not used
NextAvailable(used) ==
    CHOOSE n \in 0..Cardinality(used) :
        n \notin used /\ \A m \in 0..(n - 1) : m \in used

RECURSIVE AssignDocids(_, _, _)
\* the internal id of every staged document: the one the external id has,
\* else the next free one
AssignDocids(arrival, external_documents_ids, used) ==
    IF arrival = <<>> THEN external_documents_ids
    ELSE IF Head(arrival) \in DOMAIN external_documents_ids
    THEN AssignDocids(Tail(arrival), external_documents_ids, used)
    ELSE LET docid == NextAvailable(used)
         IN AssignDocids(Tail(arrival),
                         Put(external_documents_ids, Head(arrival), docid),
                         used \cup {docid})

\* Transform::output_from_sorter
OutputFromSorter(idx, transform) ==
    LET known == DOMAIN idx.external_documents_ids
        ids == DOMAIN transform.staged
        external == AssignDocids(transform.arrival, idx.external_documents_ids,
                                 idx.documents_ids)
        External(docid) == CHOOSE id \in ids : external[id] = docid
        Final(id) ==
            IF id \in known /\ transform.update_method = UpdateDocuments
            THEN Overlay(idx.documents[external[id]], transform.staged[id])
            ELSE transform.staged[id]
    IN [fields_ids_map |-> idx.fields_ids_map \cup
                              UNION {DOMAIN transform.staged[id] : id \in ids},
        external_documents_ids |-> external,
        new_documents_ids |-> {external[id] : id \in ids \ known},
        replaced_documents_ids |-> {external[id] : id \in ids \cap known},
        documents_count |-> Cardinality(ids),
        documents |-> [docid \in {external[id] : id \in ids} |->
                          Final(External(docid))]]

(***************************************************************************)
(* DeleteDocuments and the writing of the typed chunks.                    *)
(***************************************************************************)
Restrict(f, S) == [k \in S |-> f[k]]

\* DeleteDocuments::execute for a set of internal ids
DeleteDocuments(idx, docids) ==
    LET kept == {w \in DOMAIN idx.word_docids : idx.word_docids[w] \ docids # {}}
    IN [idx EXCEPT
          !.documents_ids = @ \ docids,
          !.documents = Restrict(@, DOMAIN @ \ docids),
          !.external_documents_ids =
              Restrict(@, {id \in DOMAIN @ : @[id] \notin docids}),
          !.word_docids = [w \in kept |-> idx.word_docids[w] \ docids],
          !.words_fst = kept]

\* the word docids chunk the extractors send for the documents of a batch
ExtractWordDocids(documents) ==
    [w \in UNION {WordsOf(documents[d]) : d \in DOMAIN documents} |->
        {d \in DOMAIN documents : w \in WordsOf(documents[d])}]

\* write_typed_chunk_into_index, over the chunks of a batch: an append when
\* index_is_empty, else a merge by union
WriteTypedChunks(idx, documents, index_is_empty) ==
    LET chunk == ExtractWordDocids(documents)
        Merged(w) ==
            IF index_is_empty \/ w \notin DOMAIN idx.word_docids
            THEN chunk[w]
            ELSE idx.word_docids[w] \cup chunk[w]
    IN [idx EXCEPT
          !.documents = [d \in DOMAIN @ \cup DOMAIN documents |->
                            IF d \in DOMAIN documents THEN documents[d] ELSE @[d]],
          !.word_docids = [w \in DOMAIN @ \cup DOMAIN chunk |->
                              IF w \in DOMAIN chunk THEN Merged(w) ELSE @[w]],
          !.words_fst = @ \cup DOMAIN chunk]


(***************************************************************************)
(* IndexDocuments::execute_raw.                                            *)
(***************************************************************************)
\* line 186
PutFieldsIdsMap(idx, fields_ids_map) ==
    [idx EXCEPT !.fields_ids_map = fields_ids_map]

\* replaced documents that are never deleted
DeleteReplacedSkipped(idx, replaced_documents_ids) == idx

\* lines 301-307
DeleteReplaced(idx, replaced_documents_ids) ==
    IF replaced_documents_ids # {}
    THEN DeleteDocuments(idx, replaced_documents_ids)
    ELSE idx

\* the new external ids never reach the index
PutExternalDocumentsIdsSkipped(idx, external_documents_ids) == idx

\* line 375
PutExternalDocumentsIds(idx, external_documents_ids) ==
    [idx EXCEPT !.external_documents_ids = external_documents_ids]

\* the replaced documents left out of the master set
AllDocumentsIdsWithoutReplaced(index_documents_ids, new_documents_ids, replaced_documents_ids) ==
    index_documents_ids \cup new_documents_ids

\* the new documents left out of the master set
AllDocumentsIdsWithoutNew(index_documents_ids, new_documents_ids, replaced_documents_ids) ==
    index_documents_ids \cup replaced_documents_ids

\* line 377
AllDocumentsIds(index_documents_ids, new_documents_ids, replaced_documents_ids) ==
    index_documents_ids \cup new_documents_ids \cup replaced_documents_ids

\* line 378
PutDocumentsIds(idx, all_documents_ids) ==
    [idx EXCEPT !.documents_ids = all_documents_ids]

\* an execute_raw that deletes the replaced documents after the writing
ExecuteRawDeletesLast(idx, output) ==
    LET with_fields == PutFieldsIdsMap(idx, output.fields_ids_map)
        index_documents_ids == with_fields.documents_ids
        written == WriteTypedChunks(with_fields, output.documents,
                                    Cardinality(index_documents_ids) = 0)
        purged == DeleteReplaced(written, output.replaced_documents_ids)
        all_documents_ids == AllDocumentsIds(index_documents_ids,
                                             output.new_documents_ids,
                                             output.replaced_documents_ids)
    IN [index |-> PutDocumentsIds(
                      PutExternalDocumentsIds(purged, output.external_documents_ids),
                      all_documents_ids),
        number_of_documents |-> Cardinality(all_documents_ids)]

\* execute_raw: the index it leaves and the count it returns
ExecuteRaw(idx, output) ==
    LET with_fields == PutFieldsIdsMap(idx, output.fields_ids_map)
        purged == DeleteReplaced(with_fields, output.replaced_documents_ids)
        index_documents_ids == purged.documents_ids
        index_is_empty == Cardinality(index_documents_ids) = 0
        written == WriteTypedChunks(purged, output.documents, index_is_empty)
        all_documents_ids == AllDocumentsIds(index_documents_ids,
                                             output.new_documents_ids,
                                             output.replaced_documents_ids)
    IN [index |-> PutDocumentsIds(
                      PutExternalDocumentsIds(written, output.external_documents_ids),
                      all_documents_ids),
        number_of_documents |-> Cardinality(all_documents_ids)]

(***************************************************************************)
(* The operations of the write path.                                       *)
(***************************************************************************)
OkCount(n) == [kind |-> "Ok", count |-> n]
DocumentAdditionResult(indexed_documents, number_of_documents) ==
    [kind |-> "DocumentAdditionResult",
     indexed_documents |-> indexed_documents,
     number_of_documents |-> number_of_documents]

\* index.write_txn()
WriteTxn ==
    /\ wtxn = FALSE
    /\ wtxn' = TRUE
    /\ UNCHANGED <<index_store, indexer, ingest_result, transform_output, recovery>>
    /\ UNCHANGED outside_ingest

\* wtxn.commit(): what the transaction saw is the index from now on
Commit ==
    /\ wtxn = TRUE
    /\ indexer = None
    /\ wtxn' = FALSE
    /\ ingest_result' = Some([kind |-> "Ok"])
    /\ transform_output' = None
    /\ recovery' = IF recovery = "rejected" THEN "committed" ELSE "none"
    /\ UNCHANGED <<index_store, indexer>>
    /\ UNCHANGED outside_ingest

\* a builder that takes its update method from nowhere
IndexDocumentsFieldsAlwaysReplace(update_method) ==
    [transform |-> TransformNew(ReplaceDocuments),
     update_method |-> update_method,
     added_documents |-> 0,
     stale |-> FALSE]

\* IndexDocuments::new: the fields of the builder
IndexDocumentsFields(update_method) ==
    [transform |-> TransformNew(update_method),
     update_method |-> update_method,
     added_documents |-> 0,
     stale |-> FALSE]

\* IndexDocuments::new
IndexDocumentsNew(update_method) ==
    /\ wtxn = TRUE
    /\ indexer = None
    /\ indexer' = Some(IndexDocumentsFields(update_method))
    /\ ingest_result' = None
    /\ transform_output' = None
    /\ UNCHANGED <<wtxn, index_store, recovery>>
    /\ UNCHANGED outside_ingest

\* the builder goes out of scope
DropIndexer ==
    /\ indexer.some
    /\ indexer' = None
    /\ UNCHANGED <<wtxn, index_store, ingest_result, transform_output, recovery>>
    /\ UNCHANGED outside_ingest

\* line 128
ReaderIsEmpty(batch) == Len(batch) = 0

\* line 140
AddedDocumentsAfter(added_documents, indexed_documents) ==
    added_documents + indexed_documents

\* a builder that takes a rejected batch for an empty one
AfterAddDocumentsSwallowsError(builder, batch) ==
    LET read == ReadDocuments(builder.transform, batch)
    IN IF ReaderIsEmpty(batch) \/ read.kind = "Err"
       THEN [builder |-> builder, returned |-> OkCount(0)]
       ELSE [builder |-> [builder EXCEPT
                            !.transform = read.transform,
                            !.added_documents = AddedDocumentsAfter(@, Len(batch))],
             returned |-> OkCount(Len(batch))]

\* add_documents: the builder it leaves and what it returns
AfterAddDocuments(builder, batch) ==
    LET read == ReadDocuments(builder.transform, batch)
    IN IF ReaderIsEmpty(batch)
       THEN [builder |-> builder, returned |-> OkCount(0)]
       ELSE IF read.kind = "Err"
       THEN [builder |-> [builder EXCEPT !.stale = TRUE], returned |-> read]
       ELSE [builder |-> [builder EXCEPT
                            !.transform = read.transform,
                            !.added_documents = AddedDocumentsAfter(@, Len(batch))],
             returned |-> OkCount(Len(batch))]

\* IndexDocuments::add_documents; a builder that failed is discarded
AddDocuments(batch) ==
    /\ wtxn = TRUE
    /\ indexer.some
    /\ ~indexer.v.stale
    /\ indexer.v.added_documents + Len(batch) <= MaxAdded
    /\ LET after == AfterAddDocuments(indexer.v, batch)
       IN /\ indexer' = Some(after.builder)
          /\ ingest_result' = Some(after.returned)
          /\ recovery' = IF after.returned.kind = "Err" THEN "rejected"
                         ELSE recovery
    /\ UNCHANGED <<wtxn, index_store, transform_output>>
    /\ UNCHANGED outside_ingest

\* Index::number_of_documents: the length of the documents database
NumberOfDocuments(idx) == Cardinality(DOMAIN idx.documents)

\* an early return that reports an index without documents
NothingToIndexOfNothing(idx) == DocumentAdditionResult(0, 0)

\* lines 147-150
NothingToIndex(idx) == DocumentAdditionResult(0, NumberOfDocuments(idx))

\* IndexDocuments::execute, which consumes the builder
IndexDocumentsExecute ==
    /\ wtxn = TRUE
    /\ indexer.some
    /\ ~indexer.v.stale
    /\ indexer' = None
    /\ IF indexer.v.added_documents = 0
       THEN /\ ingest_result' = Some(NothingToIndex(index_store))
            /\ transform_output' = None
            /\ UNCHANGED index_store
       ELSE LET output == OutputFromSorter(index_store, indexer.v.transform)
                raw == ExecuteRaw(index_store, output)
            IN /\ index_store' = raw.index
               /\ transform_output' =
                      Some([new_documents_ids |-> output.new_documents_ids,
                            replaced_documents_ids |->
                                output.replaced_documents_ids,
                            update_method |-> indexer.v.update_method,
                            staged |-> indexer.v.transform.staged,
                            deleted |->
                                Restrict(index_store.documents,
                                         output.replaced_documents_ids)])
               /\ ingest_result' = Some(DocumentAdditionResult(
                                      output.documents_count,
                                      raw.number_of_documents))
    /\ UNCHANGED <<wtxn, recovery>>
    /\ UNCHANGED outside_ingest

\* DeleteDocuments: new, delete_external_id, execute
DeleteExternalId(id) ==
    /\ wtxn = TRUE
    /\ indexer = None
    /\ LET known == id \in DOMAIN index_store.external_documents_ids
           to_delete == IF known THEN {index_store.external_documents_ids[id]}
                        ELSE {}
       IN /\ index_store' = DeleteDocuments(index_store, to_delete)
          /\ ingest_result' = Some([kind |-> "DocumentDeletionResult",
                                    deleted_documents |-> Cardinality(to_delete)])
    /\ transform_output' = None
    /\ UNCHANGED <<wtxn, indexer, recovery>>
    /\ UNCHANGED outside_ingest

(***************************************************************************)
(* Specification of the write path: transactions, builders of both update  *)
(* methods, batches of valid and invalid documents, deletions.             *)
(***************************************************************************)
InitIndex ==
    /\ index_criteria_sort = FALSE
    /\ index_sortable_fields = {}
    /\ index_distinct_field = None
    /\ index_fields_ids_map = {}
    /\ index_authorize_typos = TRUE
    /\ index_facets = [d \in Docs |-> {}]
    /\ index_buckets = <<>>
    /\ SearchNew
    /\ ExecIdle
    /\ DeriveIdle
    /\ IngestIdle
    /\ MergerIdle

NewIndexer == \E update_method \in Methods : IndexDocumentsNew(update_method)
AddBatch == \E batch \in Batches : AddDocuments(batch)
DeleteOne == \E id \in ValidIds : DeleteExternalId(id)

NextIndex ==
    \/ WriteTxn
    \/ Commit
    \/ NewIndexer
    \/ DropIndexer
    \/ AddBatch
    \/ IndexDocumentsExecute
    \/ DeleteOne

SpecIndex == InitIndex /\ [][NextIndex]_vars


(***************************************************************************)
(* execute_raw step by step: the extraction pipeline sends typed chunks on *)
(* the channel while execute_raw deletes the replaced documents, drains    *)
(* the channel into the index, writes the final records and rebuilds the   *)
(* prefix databases.  The documents of a batch are split into chunks of    *)
(* consecutive internal ids; one typed chunk of documents is sent for each *)
(* of them, and one typed chunk for each merged database, which holds what *)
(* its extractor merged over all of them.  Of the seven merged databases   *)
(* the content of word_docids is followed; the typed chunks of the six     *)
(* others are counted.                                                     *)
(***************************************************************************)
\* documents of a batch
MaxMergerBatch == 2

\* lines 36-38
MERGED_DATABASE_COUNT == 7
PREFIX_DATABASE_COUNT == 5
TOTAL_POSTING_DATABASE_COUNT == MERGED_DATABASE_COUNT + PREFIX_DATABASE_COUNT

\* `_geo` is written as the pair of its lat and its lng: "n" a number,
\* "s" a string, "-" a missing component
GeoField == "_geo"
GeoValues ==
    {<<"n", "n">>, <<"-", "n">>, <<"n", "-">>, <<"s", "n">>, <<"n", "s">>}

\* extract_geo_points: the error of a `_geo` value, if it has one
InvalidGeoField(value) ==
    IF value[1] = "-" THEN Some("MissingLatitude")
    ELSE IF value[2] = "-" THEN Some("MissingLongitude")
    ELSE IF value[1] # "n" THEN Some("BadLatitude")
    ELSE IF value[2] # "n" THEN Some("BadLongitude")
    ELSE None

\* a geo_fields_ids that does not look at the settings
GeoFieldsIdsOfAnyIndex(idx) ==
    IF GeoField \in idx.fields_ids_map THEN Some(<<"_geo.lat", "_geo.lng">>)
    ELSE None

\* lines 224-243
GeoFieldsIds(idx) ==
    IF GeoField \in idx.fields_ids_map
    THEN LET is_sortable == GeoField \in idx.sortable_fields
             is_filterable == GeoField \in idx.filterable_fields
         IN IF is_sortable \/ is_filterable
            THEN Some(<<"_geo.lat", "_geo.lng">>)
            ELSE None
    ELSE None

\* the error of the geo extractor over the documents of a batch: that of
\* the first document with an invalid `_geo`, when geo points are extracted
GeoError(documents, geo_fields_ids) ==
    LET invalid == {d \in DOMAIN documents :
                       /\ GeoField \in DOMAIN documents[d]
                       /\ InvalidGeoField(documents[d][GeoField]).some}
    IN IF geo_fields_ids.some /\ invalid # {}
       THEN InvalidGeoField(
                documents[CHOOSE d \in invalid : \A e \in invalid : d <= e][GeoField])
       ELSE None

\* grenad_obkv_into_chunks: the ways to cut the documents, sorted by internal
\* id, into chunks; a way is the set of its chunks
Splits(docids) ==
    IF docids = {} THEN {{}}
    ELSE LET first == CHOOSE d \in docids : \A e \in docids : d <= e
             Chunk(starts, start) ==
                 {d \in docids : /\ start <= d
                                 /\ \A t \in starts : t <= start \/ d < t}
         IN {{Chunk(cuts \cup {first}, start) : start \in cuts \cup {first}} :
                cuts \in SUBSET (docids \ {first})}

TypedChunk(kind, part, documents, postings) ==
    [kind |-> kind, part |-> part, documents |-> documents, postings |-> postings]
\* the merged databases besides word_docids, those that prefix databases
\* are rebuilt from first
OtherMergedDatabases ==
    <<"WordPairProximityDocids", "WordPositionDocids", "FieldIdWordCountDocids",
      "FieldIdFacetNumberDocids", "FieldIdFacetStringDocids",
      "FieldIdDocidFacetDocids">>
OtherMerged == {OtherMergedDatabases[i] : i \in DOMAIN OtherMergedDatabases}
MergedChunk(n) == TypedChunk(OtherMergedDatabases[n], {}, <<>>, <<>>)

\* extract::data_from_obkv_documents: the typed chunks with content that the
\* extractors send for a way to cut the documents.  The geo points are
\* validated on the chunks of documents, before the extractors of the merged
\* databases start: with a geo error only typed chunks of documents are sent.
ChunksOf(documents, split, geo_error) ==
    {TypedChunk("Documents", part, Restrict(documents, part), <<>>) :
        part \in split}
    \cup IF geo_error.some THEN {}
         ELSE {TypedChunk("WordDocids", DOMAIN documents, <<>>,
                          ExtractWordDocids(documents))}

\* the postings of a chunk merged by union into those of the database
MergedByUnion(database, postings) ==
    [w \in DOMAIN database \cup DOMAIN postings |->
        IF w \notin DOMAIN postings THEN database[w]
        ELSE IF w \notin DOMAIN database THEN postings[w]
        ELSE database[w] \cup postings[w]]

WriteOk(idx, is_merged_database) ==
    [index |-> idx, is_merged_database |-> is_merged_database, error |-> None]
WriteErr(idx, error) ==
    [index |-> idx, is_merged_database |-> FALSE, error |-> Some(error)]

\* a write that puts the postings of the chunk in the place of those of the
\* database
WriteTypedChunkIntoIndexByOverwriting(idx, typed_chunk, index_is_empty) ==
    IF typed_chunk.kind = "WordDocids"
    THEN {WriteOk([idx EXCEPT
                     !.word_docids =
                         [w \in DOMAIN @ \cup DOMAIN typed_chunk.postings |->
                             IF w \in DOMAIN typed_chunk.postings
                             THEN typed_chunk.postings[w] ELSE @[w]],
                     !.words_fst = @ \cup DOMAIN typed_chunk.postings],
                  TRUE)}
    ELSE IF typed_chunk.kind \in OtherMerged THEN {WriteOk(idx, TRUE)}
    ELSE {WriteOk([idx EXCEPT
                     !.documents =
                         [d \in DOMAIN @ \cup DOMAIN typed_chunk.documents |->
                             IF d \in DOMAIN typed_chunk.documents
                             THEN typed_chunk.documents[d] ELSE @[d]]],
                  FALSE)}

\* write_typed_chunk_into_index: the outcomes of the write of a typed chunk.
\* An append onto a database that holds keys fails when a key of the chunk
\* is not greater than the keys present, which is sure when the database
\* has the key and depends on the keys otherwise.
WriteTypedChunkIntoIndex(idx, typed_chunk, index_is_empty) ==
    LET unioned == [idx EXCEPT
                      !.word_docids = MergedByUnion(@, typed_chunk.postings),
                      !.words_fst = @ \cup DOMAIN typed_chunk.postings]
    IN IF typed_chunk.kind = "Documents"
       THEN {WriteOk([idx EXCEPT
                        !.documents =
                            [d \in DOMAIN @ \cup DOMAIN typed_chunk.documents |->
                                IF d \in DOMAIN typed_chunk.documents
                                THEN typed_chunk.documents[d] ELSE @[d]]],
                     FALSE)}
       ELSE IF typed_chunk.kind \in OtherMerged THEN {WriteOk(idx, TRUE)}
       ELSE IF ~index_is_empty THEN {WriteOk(unioned, TRUE)}
       ELSE IF DOMAIN idx.word_docids = {} THEN {WriteOk(unioned, TRUE)}
       ELSE IF DOMAIN idx.word_docids \cap DOMAIN typed_chunk.postings # {}
       THEN {WriteErr(idx, "KvsError")}
       ELSE {WriteErr(idx, "KvsError"), WriteOk(unioned, TRUE)}

\* every sender of the channel is dropped
Disconnected ==
    /\ extractor.dropped
    /\ extractor.to_send = {}
    /\ extractor.others = 0
    /\ extractor.error = None

\* execute with a builder that took one batch, up to the start of the
\* extraction: output_from_sorter, put_fields_ids_map, the channel, the geo
\* fields.  `others` is the number of merged databases besides word_docids.
ExecuteBegin(update_method, batch, others) ==
    LET added == AfterAddDocuments(IndexDocumentsFields(update_method), batch)
    IN /\ wtxn = TRUE
       /\ indexer = None
       /\ merger.pc \in {"idle", "failed"}
       /\ added.returned.kind = "Ok"
       /\ added.builder.added_documents > 0
       /\ LET output == OutputFromSorter(index_store, added.builder.transform)
              with_fields == PutFieldsIdsMap(index_store, output.fields_ids_map)
              geo_fields_ids == GeoFieldsIds(with_fields)
              geo_error == GeoError(output.documents, geo_fields_ids)
          IN /\ index_store' = with_fields
             /\ \E split \in Splits(DOMAIN output.documents) :
                    extractor' =
                        [to_send |-> ChunksOf(output.documents, split, geo_error),
                         others |-> IF geo_error.some THEN 0 ELSE others,
                         error |-> geo_error,
                         raised |-> geo_error,
                         dropped |-> FALSE,
                         installed |-> FALSE]
             /\ lmdb_writer' = <<>>
             /\ merger' = [MergerFrameIdle EXCEPT
                             !.pc = "install",
                             !.before = index_store,
                             !.output = Some(output),
                             !.geo_fields_ids = geo_fields_ids,
                             !.done = <<"put_fields_ids_map">>]
       /\ ingest_result' = Some(added.returned)
       /\ UNCHANGED <<wtxn, indexer, transform_output, recovery>>
       /\ UNCHANGED outside_merger

\* line 213: crossbeam_channel::unbounded(), a channel without a capacity
ChannelCapacity == None

\* a send goes through when the channel has room
HasRoom == ChannelCapacity.some => Len(lmdb_writer) < ChannelCapacity.v

\* an extractor sends a typed chunk
SendChunk ==
    /\ extractor.to_send # {} \/ extractor.others > 0
    /\ HasRoom
    /\ \/ \E typed_chunk \in extractor.to_send :
              /\ lmdb_writer' = Append(lmdb_writer, typed_chunk)
              /\ extractor' = [extractor EXCEPT !.to_send = @ \ {typed_chunk}]
       \/ /\ extractor.others > 0
          /\ lmdb_writer' = Append(lmdb_writer, MergedChunk(extractor.others))
          /\ extractor' = [extractor EXCEPT !.others = @ - 1]
    /\ UNCHANGED <<merger, ingest_vars>>
    /\ UNCHANGED outside_merger

\* the chunk splitting or an extractor fails
ExtractorFails ==
    /\ ~extractor.dropped
    /\ extractor.error = None
    /\ extractor' = [extractor EXCEPT !.error = Some("Io"), !.raised = Some("Io")]
    /\ UNCHANGED <<lmdb_writer, merger, ingest_vars>>
    /\ UNCHANGED outside_merger

\* an extraction whose error is dropped with the sender
SendErrorSendsNothing ==
    /\ ~extractor.dropped
    /\ extractor.error.some
    /\ extractor' = [extractor EXCEPT !.to_send = {}, !.others = 0,
                                      !.error = None, !.dropped = TRUE,
                                      !.installed = TRUE]
    /\ UNCHANGED <<lmdb_writer, merger, ingest_vars>>
    /\ UNCHANGED outside_merger

\* lines 290-295: the error of the extraction is sent and the sender is
\* dropped; nothing follows the error
SendError ==
    /\ ~extractor.dropped
    /\ extractor.error.some
    /\ HasRoom
    /\ lmdb_writer' = Append(lmdb_writer, Err(extractor.error.v))
    /\ extractor' = [extractor EXCEPT !.to_send = {}, !.others = 0,
                                      !.error = None, !.dropped = TRUE,
                                      !.installed = TRUE]
    /\ UNCHANGED <<merger, ingest_vars>>
    /\ UNCHANGED outside_merger

\* a closure that returns with the sender of execute_raw alive
DropSenderKeepsSender ==
    /\ ~extractor.installed
    /\ extractor.error = None
    /\ extractor' = [extractor EXCEPT !.installed = TRUE]
    /\ UNCHANGED <<lmdb_writer, merger, ingest_vars>>
    /\ UNCHANGED outside_merger

\* lines 294-295 after an extraction that started without an error:
\* execute_raw drops its sender and pool.install returns
DropSender ==
    /\ ~extractor.installed
    /\ extractor.error = None
    /\ extractor' = [extractor EXCEPT !.dropped = TRUE, !.installed = TRUE]
    /\ UNCHANGED <<lmdb_writer, merger, ingest_vars>>
    /\ UNCHANGED outside_merger

\* lines 298-306
DeleteReplacedDocuments ==
    /\ merger.pc = "install"
    /\ extractor.installed
    /\ LET replaced_documents_ids == merger.output.v.replaced_documents_ids
       IN /\ index_store' = DeleteReplaced(index_store, replaced_documents_ids)
          /\ merger' = [merger EXCEPT
                          !.pc = "read",
                          !.done = IF replaced_documents_ids # {}
                                   THEN Append(@, "delete_documents") ELSE @]
    /\ UNCHANGED <<extractor, lmdb_writer, wtxn, indexer, ingest_result,
                   transform_output, recovery>>
    /\ UNCHANGED outside_merger

\* a progress step whose total is that of the merged databases
MergeDataIntoMergedDatabases(databases_seen) ==
    [databases_seen |-> databases_seen, total_databases |-> MERGED_DATABASE_COUNT]

\* lines 317-320, 360-363 and 415-418: the step passed to the progress callback
MergeDataIntoFinalDatabase(databases_seen) ==
    [databases_seen |-> databases_seen,
     total_databases |-> TOTAL_POSTING_DATABASE_COUNT]

\* a read of the documents of the index as they were before the deletion
ReadDocumentsIdsOfBefore ==
    /\ merger.pc = "read"
    /\ merger' = [merger EXCEPT
                    !.pc = "drain",
                    !.index_documents_ids = merger.before.documents_ids,
                    !.index_is_empty = Cardinality(merger.before.documents_ids) = 0,
                    !.databases_seen = 0,
                    !.progress = Append(@, MergeDataIntoFinalDatabase(0)),
                    !.done = Append(@, "documents_ids")]
    /\ UNCHANGED <<extractor, lmdb_writer, ingest_vars>>
    /\ UNCHANGED outside_merger

\* lines 308-320: the documents of the index, index_is_empty, first report
ReadDocumentsIds ==
    /\ merger.pc = "read"
    /\ merger' = [merger EXCEPT
                    !.pc = "drain",
                    !.index_documents_ids = index_store.documents_ids,
                    !.index_is_empty = Cardinality(index_store.documents_ids) = 0,
                    !.databases_seen = 0,
                    !.progress = Append(@, MergeDataIntoFinalDatabase(0)),
                    !.done = Append(@, "documents_ids")]
    /\ UNCHANGED <<extractor, lmdb_writer, ingest_vars>>
    /\ UNCHANGED outside_merger

\* lines 356-362
DatabasesSeenAfter(databases_seen, is_merged_database) ==
    IF is_merged_database THEN databases_seen + 1 ELSE databases_seen

\* a loop that keeps no typed chunk of the word positions
KeptChunksWithoutPositions(frame, received) ==
    IF received.kind = "WordDocids"
    THEN [frame EXCEPT !.word_docids = Some(received),
                       !.exact_word_docids = Some(received)]
    ELSE IF received.kind = "WordPairProximityDocids"
    THEN [frame EXCEPT !.word_pair_proximity_docids = Some(received)]
    ELSE frame

\* lines 323-343: the typed chunks that the loop keeps for the prefix
\* databases.  The typed chunk of word_docids carries the reader of the exact
\* word docids too; each assignment replaces what the local held.
KeptChunks(frame, received) ==
    IF received.kind = "WordDocids"
    THEN [frame EXCEPT !.word_docids = Some(received),
                       !.exact_word_docids = Some(received)]
    ELSE IF received.kind = "WordPairProximityDocids"
    THEN [frame EXCEPT !.word_pair_proximity_docids = Some(received)]
    ELSE IF received.kind = "WordPositionDocids"
    THEN [frame EXCEPT !.word_position_docids = Some(received)]
    ELSE frame

\* lines 322-366: one turn of the loop over the channel
TakeChunk ==
    /\ merger.pc = "drain"
    /\ lmdb_writer # <<>>
    /\ lmdb_writer' = Tail(lmdb_writer)
    /\ LET received == Head(lmdb_writer)
           \* the write appends the postings to a database that holds keys
           onto_keys == /\ received.kind = "WordDocids"
                        /\ merger.index_is_empty
                        /\ DOMAIN index_store.word_docids # {}
       IN IF received.kind = "Err"
          THEN /\ merger' = [merger EXCEPT !.pc = "failed"]
               /\ ingest_result' = Some(received)
               /\ UNCHANGED index_store
          ELSE \E written \in WriteTypedChunkIntoIndex(
                                  index_store, received, merger.index_is_empty) :
                  IF written.error.some
                  THEN /\ merger' = [KeptChunks(merger, received) EXCEPT
                                       !.pc = "failed",
                                       !.appended_onto_keys = @ \/ onto_keys]
                       /\ ingest_result' = Some(Err(written.error.v))
                       /\ UNCHANGED index_store
                  ELSE /\ index_store' = written.index
                       /\ UNCHANGED ingest_result
                       /\ merger' = [KeptChunks(merger, received) EXCEPT
                            !.appended_onto_keys = @ \/ onto_keys,
                            !.databases_seen =
                                DatabasesSeenAfter(@, written.is_merged_database),
                            !.progress =
                                IF written.is_merged_database
                                THEN Append(@, MergeDataIntoFinalDatabase(
                                                  DatabasesSeenAfter(
                                                      merger.databases_seen, TRUE)))
                                ELSE @,
                            !.done = Append(@, received.kind)]
    /\ UNCHANGED <<extractor, wtxn, indexer, transform_output, recovery>>
    /\ UNCHANGED outside_merger

\* final records written as soon as execute_raw has dropped its sender
PutFinalRecordsBeforeTheLast ==
    /\ merger.pc = "drain"
    /\ extractor.dropped
    /\ LET output == merger.output.v
           all_documents_ids ==
               AllDocumentsIds(merger.index_documents_ids,
                               output.new_documents_ids,
                               output.replaced_documents_ids)
       IN /\ index_store' =
                 PutDocumentsIds(
                     PutExternalDocumentsIds(index_store,
                                             output.external_documents_ids),
                     all_documents_ids)
          /\ merger' = [merger EXCEPT
                          !.pc = "prefix",
                          !.number_of_documents = Cardinality(all_documents_ids),
                          !.done = @ \o <<"put_field_distribution",
                                          "put_primary_key",
                                          "put_external_documents_ids",
                                          "put_documents_ids">>]
    /\ UNCHANGED <<extractor, lmdb_writer, wtxn, indexer, ingest_result,
                   transform_output, recovery>>
    /\ UNCHANGED outside_merger

\* lines 368-378: the loop ends when the channel is empty and disconnected;
\* the four final records are written
PutFinalRecords ==
    /\ merger.pc = "drain"
    /\ lmdb_writer = <<>>
    /\ Disconnected
    /\ LET output == merger.output.v
           all_documents_ids ==
               AllDocumentsIds(merger.index_documents_ids,
                               output.new_documents_ids,
                               output.replaced_documents_ids)
       IN /\ index_store' =
                 PutDocumentsIds(
                     PutExternalDocumentsIds(index_store,
                                             output.external_documents_ids),
                     all_documents_ids)
          /\ merger' = [merger EXCEPT
                          !.pc = "prefix",
                          !.number_of_documents = Cardinality(all_documents_ids),
                          !.done = @ \o <<"put_field_distribution",
                                          "put_primary_key",
                                          "put_external_documents_ids",
                                          "put_documents_ids">>]
    /\ UNCHANGED <<extractor, lmdb_writer, wtxn, indexer, ingest_result,
                   transform_output, recovery>>
    /\ UNCHANGED outside_merger

\* a prefix stage that counts its databases from zero
PrefixReportsFromZero(databases_seen) == [i \in 1..PREFIX_DATABASE_COUNT |-> i]

\* lines 401-540: execute_prefix_databases starts from the count of the
\* merged databases and reports after each of the five prefix databases
PrefixReports(databases_seen) == [i \in 1..PREFIX_DATABASE_COUNT |-> MERGED_DATABASE_COUNT + i]

\* the byte of a character of the words, in UTF-8
Utf8Byte(c) ==
    CASE c = "-" -> 45 [] c = "1" -> 49 [] c = "2" -> 50 [] c = "7" -> 55
      [] c = "a" -> 97 [] c = "b" -> 98 [] c = "k" -> 107 [] c = "n" -> 110
      [] c = "s" -> 115 [] c = "v" -> 118
Utf8Bytes(word) == [i \in 1..Len(word) |-> Utf8Byte(word[i])]

\* lines 438, 447: fst_stream_into_vec, the keys of a stream in the order of
\* the fst, that of their bytes
RECURSIVE FstStreamIntoVec(_)
FstStreamIntoVec(stream) ==
    IF stream = {} THEN <<>>
    ELSE LET least == CHOOSE x \in stream :
                          \A y \in stream \ {x} :
                              KeyLess(Utf8Bytes(x), Utf8Bytes(y))
         IN <<least>> \o FstStreamIntoVec(stream \ {least})

\* line 452: fst_stream_into_hashset
FstStreamIntoHashset(stream) == stream

\* lines 439, 453: op().add(other).intersection(), the keys of both fsts
OpIntersection(first, other) == first \cap other

\* a difference that keeps the keys of the other fst
OpDifferenceOfTheOther(first, other) == other \ first

\* lines 448, 453: op().add(other).difference(), the keys of the first fst
\* that the other one has not
OpDifference(first, other) == first \ other

\* a key that is the last character of the prefix
LastCharacter(x) == x[Len(x)]

\* line 443: |x| x.chars().nth(0).unwrap()
FirstCharacter(x) == x[1]

\* lines 441-444: linear_group_by_key, the consecutive runs of equal key
RECURSIVE LinearGroupByKey(_)
LinearGroupByKey(words) ==
    IF words = <<>> THEN <<>>
    ELSE LET rest == LinearGroupByKey(Tail(words))
         IN IF rest # <<>>
                /\ FirstCharacter(rest[1][1]) = FirstCharacter(Head(words))
            THEN <<<<Head(words)>> \o rest[1]>> \o Tail(rest)
            ELSE <<<<Head(words)>>>> \o rest

\* lines 422-454: the prefixes before and after the rebuild of the words
\* prefixes fst, and the three sets that the prefix databases are rebuilt from
PrefixDelta(previous_words_prefixes_fst, current_prefix_fst) ==
    [previous_words_prefixes_fst |-> previous_words_prefixes_fst,
     current_prefix_fst |-> current_prefix_fst,
     common_prefix_fst_words |->
         LinearGroupByKey(FstStreamIntoVec(
             OpIntersection(previous_words_prefixes_fst, current_prefix_fst))),
     new_prefix_fst_words |->
         FstStreamIntoVec(
             OpDifference(current_prefix_fst, previous_words_prefixes_fst)),
     del_prefix_fst_words |->
         FstStreamIntoHashset(
             OpDifference(previous_words_prefixes_fst, current_prefix_fst))]

\* lines 462-534: the prefix databases that are rebuilt, one for each typed
\* chunk that the loop kept
RebuiltPrefixDatabases(frame) ==
    (IF frame.word_docids.some THEN <<"word_prefix_docids">> ELSE <<>>)
    \o (IF frame.exact_word_docids.some
        THEN <<"exact_word_prefix_docids">> ELSE <<>>)
    \o (IF frame.word_pair_proximity_docids.some
        THEN <<"word_prefix_pair_proximity_docids">> ELSE <<>>)
    \o (IF frame.word_position_docids.some
        THEN <<"word_prefix_position_docids">> ELSE <<>>)

\* lines 380-387, 391-543 and execute's lines 159-163
ExecutePrefixDatabases ==
    /\ merger.pc = "prefix"
    /\ LET reports == PrefixReports(merger.databases_seen)
           current_prefix_fst == WordsPrefixesFst(index_store.words_fst)
       IN /\ words_prefixes_fst' = current_prefix_fst
          /\ merger' = [merger EXCEPT
                          !.pc = "done",
                          !.databases_seen = reports[Len(reports)],
                          !.progress =
                              @ \o [i \in DOMAIN reports |->
                                       MergeDataIntoFinalDatabase(reports[i])],
                          !.prefixes = Some(PrefixDelta(words_prefixes_fst,
                                                        current_prefix_fst)),
                          !.done = @ \o <<"execute_prefix_databases",
                                          "words_prefixes_fst">>
                                     \o RebuiltPrefixDatabases(merger)]
    /\ ingest_result' = Some(DocumentAdditionResult(
                                merger.output.v.documents_count,
                                merger.number_of_documents))
    /\ UNCHANGED <<extractor, lmdb_writer, wtxn, index_store, indexer,
                   transform_output, recovery>>
    /\ UNCHANGED outside_prefix

\* the index after the update of an index with one batch
IndexAfter(idx, batch) ==
    LET added == AfterAddDocuments(IndexDocumentsFields(ReplaceDocuments), batch)
    IN ExecuteRaw(idx, OutputFromSorter(idx, added.builder.transform)).index

\* everything but the index and the execute_raw that is followed
OutsideExecuteRaw ==
    /\ index_criteria_sort = FALSE
    /\ index_sortable_fields = {}
    /\ index_distinct_field = None
    /\ index_fields_ids_map = {}
    /\ index_authorize_typos = TRUE
    /\ index_facets = [d \in Docs |-> {}]
    /\ index_buckets = <<>>
    /\ SearchNew
    /\ ExecIdle
    /\ DeriveIdle
    /\ wtxn = TRUE
    /\ indexer = None
    /\ ingest_result = None
    /\ transform_output = None
    /\ recovery = "none"
    /\ MergerIdle

\* the steps of the extraction and of execute_raw
ExecuteRawSteps ==
    \/ SendChunk
    \/ ExtractorFails
    \/ SendError
    \/ DropSender
    \/ DeleteReplacedDocuments
    \/ ReadDocumentsIds
    \/ TakeChunk
    \/ PutFinalRecords
    \/ ExecutePrefixDatabases

\* ---- one execute_raw over documents of one word each, on an index that is
\* ---- empty or holds one document
WordDocuments ==
    {Put([f \in {"name"} |-> word], PrimaryKey, id) :
        id \in ValidIds, word \in {<<"k">>, <<"v">>}}
WordBatches == SeqsUpTo(WordDocuments, MaxMergerBatch) \ {<<>>}

InitMerger ==
    /\ index_store \in {EmptyIndex}
                           \cup {IndexAfter(EmptyIndex, <<document>>) :
                                    document \in WordDocuments}
    /\ OutsideExecuteRaw

ExecuteBatch ==
    /\ merger.pc = "idle"
    /\ \E batch \in WordBatches : ExecuteBegin(ReplaceDocuments, batch, 0)

NextMerger == ExecuteBatch \/ ExecuteRawSteps

SpecMerger == InitMerger /\ [][NextMerger]_vars

\* the same execute_raw with threads that go on: an extractor that has a
\* typed chunk or an error to send sends it, the closure of pool.install
\* returns, execute_raw takes its next step.  A failure of the extraction is
\* never due.
ExecuteRawFairness ==
    /\ WF_vars(SendChunk)
    /\ WF_vars(SendError)
    /\ WF_vars(DropSender)
    /\ WF_vars(DeleteReplacedDocuments)
    /\ WF_vars(ReadDocumentsIds)
    /\ WF_vars(TakeChunk)
    /\ WF_vars(PutFinalRecords)
    /\ WF_vars(ExecutePrefixDatabases)

SpecDrain == InitMerger /\ [][NextMerger]_vars /\ ExecuteRawFairness

\* ---- one execute_raw over documents of one word each, "kab", "kb" or "v",
\* ---- on an index that is empty or holds the documents of one batch; the
\* ---- extractors send the typed chunks of word_docids and of none, one or
\* ---- two more merged databases
PrefixDocuments ==
    {Put([f \in {"name"} |-> word], PrimaryKey, <<"1">>) :
        word \in {<<"k", "a", "b">>, <<"k", "b">>}}
    \cup {Put([f \in {"name"} |-> word], PrimaryKey, <<"2">>) :
             word \in {<<"k", "a", "b">>, <<"v">>}}
PrefixBatches == SeqsUpTo(PrefixDocuments, MaxMergerBatch) \ {<<>>}
KindsOfOthers == 0..2

InitPrefix ==
    /\ index_store \in {EmptyIndex}
                           \cup {IndexAfter(EmptyIndex, batch) :
                                    batch \in PrefixBatches}
    /\ OutsideExecuteRaw

ExecutePrefixBatch ==
    /\ merger.pc = "idle"
    /\ \E batch \in PrefixBatches, others \in KindsOfOthers :
           ExecuteBegin(ReplaceDocuments, batch, others)

NextPrefix == ExecutePrefixBatch \/ ExecuteRawSteps

SpecPrefix == InitPrefix /\ [][NextPrefix]_vars

\* ---- updates of one document each, with a `_geo` or a word, in one write
\* ---- transaction that goes on after an execute that failed; `_geo` may be
\* ---- filterable or sortable
GeoDocuments ==
    {Put([f \in {GeoField} |-> value], PrimaryKey, <<"1">>) : value \in GeoValues}
        \cup {Put([f \in {"name"} |-> <<"k">>], PrimaryKey, <<"1">>)}
GeoBatches == {<<document>> : document \in GeoDocuments}

InitGeo ==
    /\ \E filterable \in SUBSET {GeoField}, sortable \in SUBSET {GeoField} :
           index_store = [EmptyIndex EXCEPT !.filterable_fields = filterable,
                                            !.sortable_fields = sortable]
    /\ OutsideExecuteRaw

ExecuteGeoBatch == \E batch \in GeoBatches : ExecuteBegin(ReplaceDocuments, batch, 0)

NextGeo == ExecuteGeoBatch \/ ExecuteRawSteps

SpecGeo == InitGeo /\ [][NextGeo]_vars

\* ---- one execute_raw whose seven merged databases all send their typed
\* ---- chunk, over one or two documents of the same word
ProgressBatches ==
    {<<Put([f \in {"name"} |-> <<"k">>], PrimaryKey, <<"1">>)>>,
     <<Put([f \in {"name"} |-> <<"k">>], PrimaryKey, <<"1">>),
       Put([f \in {"name"} |-> <<"k">>], PrimaryKey, <<"2">>)>>}

InitProgress ==
    /\ index_store \in
           {EmptyIndex,
            IndexAfter(EmptyIndex,
                       <<Put([f \in {"name"} |-> <<"v">>], PrimaryKey, <<"1">>)>>)}
    /\ OutsideExecuteRaw

ExecuteAllDatabases ==
    /\ merger.pc = "idle"
    /\ \E batch \in ProgressBatches :
           ExecuteBegin(ReplaceDocuments, batch, MERGED_DATABASE_COUNT - 1)

NextProgress == ExecuteAllDatabases \/ ExecuteRawSteps

SpecProgress == InitProgress /\ [][NextProgress]_vars

(***************************************************************************)
(* Properties of the write path.                                           *)
(***************************************************************************)
\* the steps of execute that reach execute_raw, and what they look at
ExecutesStaged == IndexDocumentsExecute /\ indexer.v.added_documents > 0
StagedIds == DOMAIN indexer.v.transform.staged
KnownIds == DOMAIN index_store.external_documents_ids
AdditionReturned ==
    /\ ingest_result.some
    /\ ingest_result.v.kind = "DocumentAdditionResult"
    /\ transform_output.some

\* C13: an execute returns the size of the union of the documents that were
\* in the index, the new ones and the replaced ones, which is the number of
\* documents of the index afterwards; that number grows by one for every
\* external id that was not known and stays for every one that was.
DocumentCountUnderReplacement ==
    [][ExecutesStaged =>
        LET new_ids == {index_store'.external_documents_ids[id] :
                            id \in StagedIds \ KnownIds}
            replaced_ids == {index_store.external_documents_ids[id] :
                                id \in StagedIds \cap KnownIds}
        IN /\ ingest_result'.v.number_of_documents =
                  Cardinality(index_store.documents_ids \cup new_ids
                                  \cup replaced_ids)
           /\ ingest_result'.v.number_of_documents =
                  Cardinality(index_store'.documents_ids)
           /\ Cardinality(index_store'.documents_ids) =
                  Cardinality(index_store.documents_ids)
                      + Cardinality(StagedIds \ KnownIds)]_vars

\* an execute that replaced one document beside another that stayed
ReplacedOneOfTwo ==
    /\ AdditionReturned
    /\ transform_output.v.replaced_documents_ids # {}
    /\ transform_output.v.new_documents_ids = {}
    /\ ingest_result.v.number_of_documents = 2
    /\ ingest_result.v.indexed_documents = 1


\* C14: after an execute that replaces documents, the internal id of a
\* replaced document is in the postings of no word that the new version of
\* the document does not contain.
OldPostingsPurged ==
    [][ExecutesStaged =>
        \A id \in StagedIds \cap KnownIds :
            LET docid == index_store.external_documents_ids[id]
            IN \A w \in DOMAIN index_store'.word_docids :
                   docid \in index_store'.word_docids[w] =>
                       /\ docid \in DOMAIN index_store'.documents
                       /\ index_store'.documents[docid][PrimaryKey] = id
                       /\ w \in WordsOf(index_store'.documents[docid])]_vars

\* a replaced document lost a word that another document keeps in the index
ReplacedVersionLostAWord ==
    /\ AdditionReturned
    /\ \E docid \in transform_output.v.replaced_documents_ids :
           \E w \in WordsOf(transform_output.v.deleted[docid]) :
               /\ w \notin WordsOf(index_store.documents[docid])
               /\ w \in index_store.words_fst
               /\ docid \notin index_store.word_docids[w]


\* C15: every internal id in a postings bitmap is in the stored
\* documents_ids, after every execute and every deletion.
PostingsWithinDocumentsIds ==
    \A w \in DOMAIN index_store.word_docids :
        index_store.word_docids[w] \subseteq index_store.documents_ids

\* an execute wrote the postings of a new document and of a replaced one
PostingsOfNewAndReplaced ==
    /\ AdditionReturned
    /\ \E new \in transform_output.v.new_documents_ids :
           \E w \in DOMAIN index_store.word_docids :
               new \in index_store.word_docids[w]
    /\ \E replaced \in transform_output.v.replaced_documents_ids :
           \E w \in DOMAIN index_store.word_docids :
               replaced \in index_store.word_docids[w]


\* C16: under UpdateDocuments, an execute that brings fields B for an
\* external id stored with fields A leaves one document of that id, under
\* the same internal id, whose fields are those of A and of B with the
\* values of B where both have the field; the number of documents grows
\* only by the external ids that were not known.
MergeAdditivity ==
    [][(ExecutesStaged /\ indexer.v.update_method = UpdateDocuments) =>
        /\ \A id \in StagedIds \cap KnownIds :
               LET docid == index_store.external_documents_ids[id]
                   A == index_store.documents[docid]
                   B == indexer.v.transform.staged[id]
                   stored == index_store'.documents[docid]
               IN /\ index_store'.external_documents_ids[id] = docid
                  /\ DOMAIN stored = DOMAIN A \cup DOMAIN B
                  /\ \A f \in DOMAIN B : stored[f] = B[f]
                  /\ \A f \in DOMAIN A \ DOMAIN B : stored[f] = A[f]
                  /\ Cardinality({d \in index_store'.documents_ids :
                        index_store'.documents[d][PrimaryKey] = id}) = 1
        /\ StagedIds \subseteq KnownIds =>
               ingest_result'.v.number_of_documents =
                   Cardinality(index_store.documents_ids)]_vars

\* the only document of the index kept a field of its stored version that
\* the later batch did not have, and took a field that the batch brought
MergedAcrossBatches ==
    /\ AdditionReturned
    /\ transform_output.v.update_method = UpdateDocuments
    /\ ingest_result.v.number_of_documents = 1
    /\ \E id \in DOMAIN transform_output.v.staged :
           /\ id \in DOMAIN index_store.external_documents_ids
           /\ LET docid == index_store.external_documents_ids[id]
                  B == transform_output.v.staged[id]
              IN /\ docid \in transform_output.v.replaced_documents_ids
                 /\ LET A == transform_output.v.deleted[docid]
                    IN /\ DOMAIN A \ DOMAIN B # {}
                       /\ DOMAIN B \ DOMAIN A # {}
                       /\ DOMAIN index_store.documents[docid] =
                              DOMAIN A \cup DOMAIN B


\* C17: under ReplaceDocuments, an execute whose documents are the stored
\* ones, each as it is stored, leaves documents_ids, the keys of words_fst
\* and the bitmap of every postings key as they were.
IdempotentReplacement ==
    [][(/\ ExecutesStaged
        /\ indexer.v.update_method = ReplaceDocuments
        /\ StagedIds = KnownIds
        /\ \A id \in StagedIds :
               indexer.v.transform.staged[id] =
                   index_store.documents[index_store.external_documents_ids[id]])
       => /\ index_store'.documents_ids = index_store.documents_ids
          /\ index_store'.words_fst = index_store.words_fst
          /\ DOMAIN index_store'.word_docids = index_store'.words_fst
          /\ index_store'.word_docids = index_store.word_docids]_vars

\* two documents were ingested again as they were stored
SameTwoDocumentsAgain ==
    /\ AdditionReturned
    /\ transform_output.v.update_method = ReplaceDocuments
    /\ ingest_result.v.indexed_documents = 2
    /\ ingest_result.v.number_of_documents = 2
    /\ transform_output.v.replaced_documents_ids = index_store.documents_ids
    /\ DOMAIN transform_output.v.staged =
           DOMAIN index_store.external_documents_ids
    /\ \A id \in DOMAIN transform_output.v.staged :
           transform_output.v.staged[id] =
               transform_output.v.deleted[index_store.external_documents_ids[id]]


\* the external ids of the documents that exist
LiveExternalIds ==
    {index_store.documents[d][PrimaryKey] : d \in index_store.documents_ids}

\* C18: external_documents_ids holds exactly the external ids of the
\* documents that exist, each with the internal id of its document; a
\* deletion removes the entry of the id, an execute leaves an entry for
\* every id it ingested and succeeds, whether the id was known or not.
ExternalIdsTrackLiveDocuments ==
    /\ [](/\ DOMAIN index_store.external_documents_ids = LiveExternalIds
          /\ DOMAIN index_store.documents = index_store.documents_ids
          /\ \A id \in DOMAIN index_store.external_documents_ids :
                 LET docid == index_store.external_documents_ids[id]
                 IN /\ docid \in index_store.documents_ids
                    /\ index_store.documents[docid][PrimaryKey] = id)
    /\ [][/\ \A id \in ValidIds :
                 DeleteExternalId(id) =>
                     id \notin DOMAIN index_store'.external_documents_ids
          /\ ExecutesStaged =>
                 /\ StagedIds \subseteq DOMAIN index_store'.external_documents_ids
                 /\ ingest_result'.v.kind = "DocumentAdditionResult"
                 /\ ingest_result'.v.indexed_documents =
                        Cardinality(StagedIds)]_vars

\* an execute gave the internal id 0 to a new document while the internal
\* id 1 was in use: the external id that had 0 was deleted, and the batch
\* brought it back
DeletedIdIngestedAgain ==
    /\ AdditionReturned
    /\ transform_output.v.new_documents_ids = {0}
    /\ index_store.documents_ids = {0, 1}
    /\ DOMAIN index_store.external_documents_ids = ValidIds


\* C19: add_documents on an empty batch returns 0 and leaves the builder,
\* added_documents included, and the index as they were; execute on a
\* builder with added_documents = 0 returns indexed_documents = 0 and the
\* number of documents of the index, and leaves the index as it was.
EmptyUpdateIsNoOp ==
    [][/\ AddDocuments(<<>>) =>
              /\ ingest_result' = Some(OkCount(0))
              /\ indexer'.v.added_documents = indexer.v.added_documents
              /\ indexer' = indexer
              /\ index_store' = index_store
       /\ (IndexDocumentsExecute /\ indexer.v.added_documents = 0) =>
              /\ ingest_result'.v.indexed_documents = 0
              /\ ingest_result'.v.number_of_documents =
                     Cardinality(index_store.documents_ids)
              /\ index_store' = index_store]_vars

\* an empty update was executed on an index of two documents
EmptyUpdateOnTwoDocuments ==
    /\ ingest_result = Some(DocumentAdditionResult(0, 2))
    /\ transform_output = None
    /\ indexer = None
    /\ Cardinality(index_store.documents_ids) = 2

\* the batches with an external id that valid_document_id refuses
InvalidBatches ==
    {batch \in Batches :
        \E i \in 1..Len(batch) : batch[i][PrimaryKey] \in InvalidIds}

\* C20: add_documents on a batch with an invalid external id returns the
\* error InvalidDocumentId and leaves the index as it was; discarding the
\* builder and committing leave the index as it was; every later execute of
\* a builder with documents succeeds and indexes them.
InvalidIdRejectedIndexKept ==
    [][/\ \A batch \in InvalidBatches :
              (indexer.some /\ indexer'.some /\ AddDocuments(batch)) =>
                  /\ ingest_result'.v.kind = "Err"
                  /\ ingest_result'.v.error = "InvalidDocumentId"
                  /\ index_store' = index_store
       /\ (DropIndexer \/ Commit) => index_store' = index_store
       /\ (ExecutesStaged /\ recovery = "committed") =>
              /\ ingest_result'.v.kind = "DocumentAdditionResult"
              /\ ingest_result'.v.indexed_documents = Cardinality(StagedIds)
              /\ \A id \in StagedIds :
                     /\ valid_document_id(id)
                     /\ id \in DOMAIN index_store'.external_documents_ids]_vars

\* after a rejected batch and the commit, a new builder indexed a document
ValidBatchAfterRejectedOne ==
    /\ recovery = "committed"
    /\ AdditionReturned
    /\ ingest_result.v.indexed_documents = 1
    /\ transform_output.v.new_documents_ids # {}


(***************************************************************************)
(* Properties of execute_raw step by step.                                 *)
(***************************************************************************)
\* execute has returned
ExecuteReturned == merger.pc \in {"done", "failed"}

\* the documents of the batch whose `_geo` is invalid
InvalidGeoDocuments ==
    {d \in DOMAIN merger.output.v.documents :
        /\ GeoField \in DOMAIN merger.output.v.documents[d]
        /\ InvalidGeoField(merger.output.v.documents[d][GeoField]).some}

GeoErrors == {"MissingLatitude", "MissingLongitude", "BadLatitude", "BadLongitude"}

\* C21: add_documents accepts the batches whose `_geo` is invalid; when `_geo`
\* has a field id and is filterable or sortable, the execute of such a batch
\* fails with the error of the invalid `_geo`; when `_geo` is neither
\* filterable nor sortable, or has no field id, no execute fails with a geo
\* error.
GeoValidation ==
    /\ \A batch \in GeoBatches :
           AfterAddDocuments(IndexDocumentsFields(ReplaceDocuments), batch).returned
               = OkCount(Len(batch))
    /\ ExecuteReturned =>
           IF /\ GeoField \in index_store.fields_ids_map
              /\ GeoField \in index_store.filterable_fields
                                  \cup index_store.sortable_fields
              /\ InvalidGeoDocuments # {}
           THEN /\ merger.pc = "failed"
                /\ \E d \in InvalidGeoDocuments :
                       ingest_result = Some(Err(InvalidGeoField(
                           merger.output.v.documents[d][GeoField]).v))
           ELSE \A error \in GeoErrors : ingest_result # Some(Err(error))

\* an execute failed on a `_geo` without lat where `_geo` is sortable only
GeoLatitudeMissed ==
    /\ merger.pc = "failed"
    /\ ingest_result = Some(Err("MissingLatitude"))
    /\ index_store.sortable_fields = {GeoField}
    /\ index_store.filterable_fields = {}


IndexUnchangedOnExtractorError ==
    (/\ merger.pc = "failed"
     /\ extractor.raised.some
     /\ ingest_result = Some(Err(extractor.raised.v)))
        => index_store = merger.before


ProgressBounds ==
    /\ \A i \in 1..Len(merger.progress) :
           /\ merger.progress[i].total_databases = 12
           /\ merger.progress[i].databases_seen \in 0..12
    /\ merger.progress # <<>> => merger.progress[1].databases_seen = 0
    /\ merger.pc \in {"drain", "prefix", "done", "failed"} => merger.progress # <<>>
    /\ merger.pc = "done" =>
           merger.progress[Len(merger.progress)].databases_seen = 12

\* an execute of two documents succeeded and its last report was of 12 of 12
LastReportOfTwelve ==
    /\ merger.pc = "done"
    /\ Cardinality(merger.output.v.new_documents_ids) = 2
    /\ merger.progress[Len(merger.progress)] =
           [databases_seen |-> 12, total_databases |-> 12]


\* C26: the channel between the extractors and execute_raw has a fixed
\* capacity that the number of buffered typed chunks never exceeds, a send
\* waiting while the channel is full.
ChannelBounded ==
    lmdb_writer # <<>> =>
        /\ ChannelCapacity.some
        /\ Len(lmdb_writer) <= ChannelCapacity.v

\* every typed chunk of an execute is in the channel before execute_raw takes
\* the first one
WholeBatchBuffered ==
    /\ merger.pc = "install"
    /\ extractor.to_send = {}
    /\ extractor.others = 0
    /\ Len(lmdb_writer) = MERGED_DATABASE_COUNT + 2


\* the places of an event in what execute_raw did, those of the writes of
\* typed chunks
Places(event) == {i \in 1..Len(merger.done) : merger.done[i] = event}
Writes ==
    {i \in 1..Len(merger.done) :
        merger.done[i] \in {"Documents", "WordDocids"} \cup OtherMerged}

\* C27: when the batch replaces documents, their deletion comes before the
\* read of the documents of the index and of index_is_empty and before the
\* write of the first typed chunk, and the read sees the index without the
\* replaced documents; when the batch replaces none, no deletion runs.
DeletionPrecedesWriting ==
    merger.output.some =>
        LET replaced_documents_ids == merger.output.v.replaced_documents_ids
            after_deletion == merger.before.documents_ids \ replaced_documents_ids
        IN /\ replaced_documents_ids = {} => Places("delete_documents") = {}
           /\ replaced_documents_ids # {} =>
                  \A later \in Places("documents_ids")
                                   \cup Writes :
                      \E deletion \in Places("delete_documents") : deletion < later
           /\ Places("documents_ids") # {} =>
                  /\ merger.index_documents_ids = after_deletion
                  /\ merger.index_is_empty = (after_deletion = {})
           /\ \A written \in Writes :
                  \E read \in Places("documents_ids") : read < written

\* the only document of the index was replaced: it was deleted, the index was
\* then read as empty, and the typed chunks were written
OnlyDocumentReplaced ==
    /\ merger.pc = "done"
    /\ merger.before.documents_ids # {}
    /\ merger.output.v.replaced_documents_ids = merger.before.documents_ids
    /\ merger.index_is_empty
    /\ Writes # {}


FinalRecordsEvents ==
    <<"put_field_distribution", "put_primary_key",
      "put_external_documents_ids", "put_documents_ids">>

\* C28: the records field_distribution, primary_key, external_documents_ids
\* and documents_ids are written once every typed chunk was taken from the
\* channel and written without error, and before the prefix databases are
\* rebuilt; an execute that fails on a chunk writes none of the four.
FinalRecordsAfterTheChunks ==
    /\ \A k \in 1..Len(FinalRecordsEvents) :
           \A put \in Places(FinalRecordsEvents[k]) :
               /\ extractor.to_send = {} /\ extractor.others = 0
               /\ lmdb_writer = <<>>
               /\ extractor.raised = None
               /\ \A written \in Writes : written < put
               /\ \A prefix \in Places("execute_prefix_databases") : put < prefix
    /\ merger.pc \in {"prefix", "done"} =>
           /\ \A k \in 1..Len(FinalRecordsEvents) :
                  Cardinality(Places(FinalRecordsEvents[k])) = 1
           /\ index_store.external_documents_ids =
                  merger.output.v.external_documents_ids
           /\ index_store.documents_ids =
                  merger.index_documents_ids
                      \cup merger.output.v.new_documents_ids
                      \cup merger.output.v.replaced_documents_ids
    /\ merger.pc = "failed" =>
           /\ \A k \in 1..Len(FinalRecordsEvents) :
                  Places(FinalRecordsEvents[k]) = {}
           /\ Places("execute_prefix_databases") = {}
           /\ Places("documents_ids") # {} =>
                  index_store.documents_ids = merger.index_documents_ids

\* the final records were written after the typed chunks of two chunks of
\* documents and that of word_docids, and the prefix databases were rebuilt
FinalRecordsAfterThreeChunks ==
    /\ merger.pc = "done"
    /\ Cardinality(Writes) = 3
    /\ Places("execute_prefix_databases") # {}


\* C29: a typed chunk of postings is appended only to a database that holds
\* no key; the write into a database that holds keys merges by union, and no
\* key that the database holds is overwritten or lost.
WriteModeByTarget ==
    /\ [](merger.appended_onto_keys = FALSE)
    /\ [][TakeChunk =>
            \A word \in DOMAIN index_store.word_docids :
                /\ word \in DOMAIN index_store'.word_docids
                /\ index_store.word_docids[word]
                       \subseteq index_store'.word_docids[word]]_vars


ListedIn(list) == {list[i] : i \in DOMAIN list}

\* the groups of a list of groups, one after the other
RECURSIVE ConcatGroups(_)
ConcatGroups(groups) ==
    IF groups = <<>> THEN <<>> ELSE Head(groups) \o ConcatGroups(Tail(groups))

\* C31: with P the words prefixes fst before the rebuild and C the one
\* after, the common prefixes are P \cap C, the new ones C \ P and the
\* deleted ones P \ C; the three sets are pairwise disjoint, the common and
\* the new ones make C, the common and the deleted ones make P.
PrefixDeltaSets ==
    merger.pc = "done" =>
        LET P == WordsPrefixesFst(merger.before.words_fst)
            C == words_prefixes_fst
            common == ListedIn(ConcatGroups(merger.prefixes.v.common_prefix_fst_words))
            new == ListedIn(merger.prefixes.v.new_prefix_fst_words)
            deleted == merger.prefixes.v.del_prefix_fst_words
        IN /\ merger.prefixes.v.previous_words_prefixes_fst = P
           /\ merger.prefixes.v.current_prefix_fst = C
           /\ C = WordsPrefixesFst(index_store.words_fst)
           /\ common = P \cap C
           /\ new = C \ P
           /\ deleted = P \ C
           /\ common \cap new = {}
           /\ common \cap deleted = {}
           /\ new \cap deleted = {}
           /\ common \cup new = C
           /\ common \cup deleted = P

\* a rebuild with a common prefix, a new one and a deleted one
PrefixesOfTheThreeSets ==
    /\ merger.pc = "done"
    /\ merger.prefixes.v.common_prefix_fst_words # <<>>
    /\ merger.prefixes.v.new_prefix_fst_words # <<>>
    /\ merger.prefixes.v.del_prefix_fst_words # {}


\* C32: the common prefixes are split into consecutive groups; the prefixes
\* of a group share their first character, no two groups have the same
\* first character, and the groups one after the other are the common
\* prefixes in the order of the fst.
CommonPrefixesGrouped ==
    merger.pc = "done" =>
        LET groups == merger.prefixes.v.common_prefix_fst_words
            listed == ConcatGroups(groups)
        IN /\ \A g \in DOMAIN groups :
                  /\ groups[g] # <<>>
                  /\ \A i \in DOMAIN groups[g] :
                         groups[g][i][1] = groups[g][1][1]
           /\ \A g \in DOMAIN groups : \A h \in DOMAIN groups :
                  g # h => groups[g][1][1] # groups[h][1][1]
           /\ ListedIn(listed) =
                  merger.prefixes.v.previous_words_prefixes_fst
                      \cap merger.prefixes.v.current_prefix_fst
           /\ \A i \in DOMAIN listed : \A j \in DOMAIN listed :
                  i < j => KeyLess(Utf8Bytes(listed[i]), Utf8Bytes(listed[j]))

\* two groups of common prefixes, one of them of two prefixes
TwoGroupsOfCommonPrefixes ==
    /\ merger.pc = "done"
    /\ Len(merger.prefixes.v.common_prefix_fst_words) = 2
    /\ \E g \in DOMAIN merger.prefixes.v.common_prefix_fst_words :
           Len(merger.prefixes.v.common_prefix_fst_words[g]) = 2


\* the typed chunk that a prefix database is rebuilt from, the local of
\* execute_raw that keeps it, and the event of the rebuild
PrefixInputs ==
    {[kind |-> "WordDocids", prefix |-> "word_prefix_docids",
      kept |-> merger.word_docids],
     [kind |-> "WordDocids", prefix |-> "exact_word_prefix_docids",
      kept |-> merger.exact_word_docids],
     [kind |-> "WordPairProximityDocids",
      prefix |-> "word_prefix_pair_proximity_docids",
      kept |-> merger.word_pair_proximity_docids],
     [kind |-> "WordPositionDocids", prefix |-> "word_prefix_position_docids",
      kept |-> merger.word_position_docids]}

\* the reports of the prefix stage
PrefixProgress ==
    {i \in DOMAIN merger.progress :
        merger.progress[i].databases_seen > MERGED_DATABASE_COUNT}

DrainTerminates ==
    /\ (merger.pc = "drain") ~> (merger.pc \in {"prefix", "failed"})
    /\ (merger.pc = "install") ~> (extractor.installed /\ extractor.dropped)
    /\ (merger.pc \in {"install", "read", "drain", "prefix"}) ~> ExecuteReturned

\* execute_raw waits on an empty channel for an extractor that has not sent
\* its typed chunks yet
ReceiverWaitsForExtractors ==
    /\ merger.pc = "drain"
    /\ lmdb_writer = <<>>
    /\ extractor.dropped
    /\ extractor.to_send # {}


(***************************************************************************)
(* The loop of perform_sort.                                               *)
(***************************************************************************)
\* C33: the excluded set handed to criteria.next for a bucket is the one
\* that into_excluded returned for the bucket before it, the empty set for
\* the first bucket; the same set is handed to distinct for that bucket; each
\* of these sets holds the one before it.
ExcludedAccumulates ==
    pc \in {"loop", "done"} =>
        /\ Len(distinct_calls) = criteria_pos
        /\ Len(next_calls) >= criteria_pos
        /\ next_calls # <<>> => next_calls[1] = {}
        /\ \A i \in 1..Len(distinct_calls) :
               distinct_calls[i].excluded = next_calls[i]
        /\ \A i \in 1..(Len(next_calls) - 1) :
               /\ distinct_calls[i].into_excluded = Some(next_calls[i + 1])
               /\ next_calls[i] \subseteq next_calls[i + 1]
        /\ pc = "loop" /\ criteria_pos > 0 =>
               distinct_calls[criteria_pos].into_excluded
                   = Some(excluded_candidates)

\* the ids that the first bucket excluded were handed to criteria.next and
\* to distinct for the second bucket, and to the call that returned None
ExcludedCarriedOver ==
    /\ pc = "done"
    /\ Len(next_calls) = 3
    /\ next_calls[2] # {}
    /\ distinct_calls[2].excluded = next_calls[2]
    /\ Len(documents_ids) = 2


\* C34: the loop never holds more than `limit` ids, so that
\* `limit - documents_ids.len()` does not underflow; with `limit` ids
\* collected, also with a limit of 0 after the first bucket, the loop stops
\* and criteria.next is not called again; otherwise it goes on until
\* criteria.next returns None.
LimitEndsTheLoop ==
    /\ Len(documents_ids) <= limit
    /\ pc = "loop" /\ criteria_pos > 0 => Len(documents_ids) < limit
    /\ SortPerformed =>
           \/ /\ Len(documents_ids) = limit
              /\ criteria_pos >= 1
              /\ Len(next_calls) = criteria_pos
           \/ /\ Len(next_calls) = criteria_pos + 1
              /\ criteria_pos = Len(index_buckets)
              /\ criteria_pos >= 1 => Len(documents_ids) < limit

\* a limit of 0: the loop stopped after the first of two buckets
LimitOfZeroStopsAfterOneBucket ==
    /\ SortPerformed
    /\ limit = 0
    /\ Len(index_buckets) = 2
    /\ index_buckets[1] # {}
    /\ criteria_pos = 1
    /\ Len(next_calls) = 1


\* the bucket_candidates of the first n buckets
BucketCandidatesOf(n) == UNION {index_buckets[i] : i \in 1..n}

\* C35: when the loop ends on the exhaustion of the criteria, the candidates
\* of the result are the bucket_candidates of all the buckets without the
\* excluded set that the distinct iterator of the last bucket returned; when
\* it ends on `limit` ids collected, they are the bucket_candidates of the
\* buckets seen, nothing subtracted, the excluded set being empty then.
CandidatesOfTheResult ==
    SortPerformed =>
        IF Len(next_calls) = criteria_pos + 1
        THEN /\ criteria_pos = Len(index_buckets)
             /\ result.v.candidates =
                    BucketCandidatesOf(Len(index_buckets))
                        \ (IF criteria_pos = 0 THEN {}
                           ELSE distinct_calls[criteria_pos].into_excluded.v)
        ELSE /\ Len(documents_ids) = limit
             /\ excluded_candidates = {}
             /\ result.v.candidates = BucketCandidatesOf(criteria_pos)

\* the criteria were exhausted and the last distinct iterator had excluded a
\* document of a bucket, which the candidates do not hold
ExcludedLeftOutOfCandidates ==
    /\ SortPerformed
    /\ Len(next_calls) = criteria_pos + 1
    /\ criteria_pos = 2
    /\ result.v.candidates # BucketCandidatesOf(2)

\* the loop ended on the limit after a bucket whose distinct iterator had
\* excluded a document, which the candidates hold
ExcludedKeptInCandidates ==
    /\ SortPerformed
    /\ Len(next_calls) = criteria_pos
    /\ \E d \in result.v.candidates :
           \E i \in 1..Len(documents_ids) :
               /\ d # documents_ids[i]
               /\ index_facets[d] \cap index_facets[documents_ids[i]] # {}


(***************************************************************************)
(* The checks of Search::execute before the loop.                          *)
(***************************************************************************)
\* the loop of perform_sort did not run
LoopNotRun ==
    /\ criteria_pos = 0
    /\ next_calls = <<>>
    /\ distinct_calls = <<>>
    /\ documents_ids = <<>>
    /\ initial_candidates = {}

\* the loop ran with the no-op distinct: no id was excluded, the ids are
\* those of the buckets from the offset on
LoopRunWithNoopDistinct ==
    /\ next_calls # <<>>
    /\ \A i \in 1..Len(next_calls) : next_calls[i] = {}
    /\ result.v.kind = "Ok"
    /\ result.v.documents_ids =
           SubSeq(Flatten(index_buckets), offset + 1,
                  Min(offset + limit, Len(Flatten(index_buckets))))

\* the index has a distinct field whose name has no field id
DistinctFieldWithoutId ==
    /\ index_distinct_field.some
    /\ index_distinct_field.v \notin index_fields_ids_map

\* C36 as stated: with a distinct field whose name has no field id execute
\* returns the default empty result without running the loop, whatever the
\* query, the filter, the offset and the limit; with no distinct field the
\* loop runs with the no-op distinct.
DefaultResultWhateverTheFilter ==
    pc = "done" =>
        /\ DistinctFieldWithoutId =>
               result = Some(SearchResultDefault) /\ LoopNotRun
        /\ ~index_distinct_field.some => LoopRunWithNoopDistinct

\* C36: once the filter evaluated and the checks of the sort criteria
\* passed, execute returns the default empty result without running the
\* loop when the distinct field has no field id, whatever the query, the
\* offset and the limit, and runs the loop with the no-op distinct when no
\* distinct field is set; a filter whose evaluation fails is reported first.
DefaultResultAfterTheChecks ==
    pc = "done" =>
        /\ FilterFails => Failed("InvalidFilter") /\ LoopNotRun
        /\ ~FilterFails /\ DistinctFieldWithoutId =>
               result = Some(SearchResultDefault) /\ LoopNotRun
        /\ ~FilterFails /\ ~index_distinct_field.some =>
               LoopRunWithNoopDistinct

\* the default result for a query with a filter, an offset and a limit, on
\* an index whose distinct field has no field id
DefaultResultReturned ==
    /\ pc = "done"
    /\ DistinctFieldWithoutId
    /\ query.some
    /\ filter = Some("valid")
    /\ offset = 1
    /\ limit = 2
    /\ result = Some(SearchResultDefault)

\* C37: the filter is evaluated first, then the sort criteria are checked,
\* then the Sort ranking rule; when several fail, the error of the filter
\* is reported before InvalidSortableAttribute, and InvalidSortableAttribute
\* before SortRankingRuleMissing; after an error no bucket was asked of the
\* criteria and no document is returned.
OrderOfChecks ==
    pc = "done" =>
        /\ FilterFails => Failed("InvalidFilter")
        /\ ~FilterFails /\ RejectedCriteria # {} =>
               Failed("InvalidSortableAttribute")
        /\ ~FilterFails /\ RejectedCriteria = {}
              /\ SortRequested /\ ~index_criteria_sort =>
               Failed("SortRankingRuleMissing")
        /\ result.v.kind = "Err" => LoopNotRun

\* the three checks fail at once and the error is that of the filter
FilterErrorReportedFirst ==
    /\ Failed("InvalidFilter")
    /\ RejectedCriteria # {}
    /\ SortRequested
    /\ ~index_criteria_sort


(***************************************************************************)
(* The panic of get_first.                                                 *)
(***************************************************************************)
\* C40: word_derivations does not panic on a query word that is not empty:
\* for every such word, every is_prefix, every max_typo of 0, 1 and 2 and
\* every fst, one that holds the empty key included, the call returns a
\* list or a Utf8Error.
NoPanicOnNonEmptyWord ==
    (wd_call.some /\ wd_call.v[1] # <<>>) =>
        wd_result.v.kind \in {"Ok", "Err"}

=============================================================================
